---- MODULE Spec2Model ----
(***************************************************************************)
(* Aggregation pipeline of the analytics dashboard: the per-domain         *)
(* aggregations of lib/metrics.ts, the get_dashboard_data stored procedure *)
(* and its client getDashboardData, and the /api/stats route.              *)
(*                                                                         *)
(* Conventions.  Host names (domain_normalized, referrer_normalized) are   *)
(* sequences of one-character strings, so that LIKE and regular            *)
(* expressions act on characters.  The other text columns are strings.     *)
(* Timestamps are seconds; a date YYYY-MM-DD is its day number.            *)
(* Percentages are kept in tenths of a percent (33.3 is 333).              *)
(***************************************************************************)
EXTENDS Integers, Sequences, FiniteSets, TLC

VARIABLES
  rows,          \* the metrics_page_views table, in insertion order
  underContract, \* the domains_under_contract table
  tz,            \* the offset of the server's local time
  resp,          \* the response just computed, if any
  run,           \* a request whose reads are still in flight
  domainPage,    \* the state of the domain page and its fetches
  hitsTable,     \* the pageviews table of the domain page
  statsTable     \* a TableWithPercentage component

\* the state of the browser
client == <<domainPage, hitsTable, statsTable>>

vars == <<rows, underContract, tz, resp, run, client>>

\* ------------------------------------------------------------------ bounds
MaxRows == 3

\* ------------------------------------------------------------- null values
\* null in a text column (SQL NULL, JS null)
NULL == "NULL"
\* null in a host column
NULLHOST == <<"NULL">>
\* a JSON / SQL value that may be null, and the JS number NaN
JsonNull == [t |-> "null"]
NaN == [t |-> "NaN"]
Val(x) == [t |-> "val", v |-> x]

\* ------------------------------------------------------------------- time
Day == 86400
EndOfDay == 86399
\* `${startDate}T00:00:00Z`
StartStamp(date) == date * Day
\* `${endDate}T23:59:59Z`
EndStamp(date) == date * Day + EndOfDay

\* ------------------------------------------------------------ sample rows
HostA == <<"a", ".", "c">>
HostWA == <<"w", ".", "a", ".", "c">>
HostG == <<"g", ".", "c">>

Row(ts, ip, d, r, b, o, dv, c) ==
  [timestamp |-> ts, ip |-> ip, domain_normalized |-> d,
   referrer_normalized |-> r, browser_normalized |-> b,
   os_normalized |-> o, device_normalized |-> dv, country |-> c]

\* the raw columns of a page view: referrer, domain and path, as character
\* sequences; the raw domain is the host the page was served from
WithPage(r, referrer, path) ==
  r @@ [referrer |-> referrer, domain |-> r.domain_normalized, path |-> path]

RowPool ==
  { WithPage(Row(1 * Day + 43200, "1", HostA, HostG, "Chrome", "Mac", "Desktop", "US"),
             HostG, <<"/">>),
    WithPage(Row(1 * Day + 43200, "1", HostA, HostA, "Firefox", "Win", "Desktop", NULL),
             HostA, <<"/", "|">> \o HostWA \o <<"/">>),
    WithPage(Row(2 * Day + EndOfDay, "2", HostA, HostWA, "Bot", NULL, NULL, "DE"),
             HostWA, <<"/", "x">>),
    WithPage(Row(1 * Day, NULL, HostWA, HostA, NULL, "Mac", "Mobile", "DE"),
             HostA \o <<"|">> \o HostA \o <<"/">>, <<"/">>),
    WithPage(Row(3 * Day + 10, "3", HostA, NULLHOST, "Chrome", "Win", "Mobile", "US"),
             NULLHOST, <<"/">>) }

Domains == {HostA, HostWA}
DateRanges == {<<1, 1>>, <<1, 3>>}
TZOffsets == {0}
ClientOutcomes == {"ok", "error", "reject"}

\* ------------------------------------------------------ sequence helpers
\* data.map(item => item.ip)
Ips(s) == [i \in 1..Len(s) |-> s[i].ip]

\* the values of one numeric field of a sequence of stats
Column(s, field) == [i \in 1..Len(s) |-> s[i][field]]

\* new Set(xs).size
SetSize(s) == Cardinality({s[i] : i \in 1..Len(s)})

\* insertion order of the keys of a Record filled by forEach
KeysInOrder(ks) ==
  LET tagged == [i \in 1..Len(ks) |-> <<i, ks[i]>>]
      firsts == SelectSeq(tagged, LAMBDA p : \A j \in 1..(p[1] - 1) : ks[j] # p[2])
  IN  [i \in 1..Len(firsts) |-> firsts[i][2]]

\* SortDesc that leaves the sequence as it is
SortDescUnsorted(s, field) == s

\* Array.prototype.sort((a, b) => b[field] - a[field]): stable, descending
SortDesc(s, field) ==
  LET n == Len(s)
      Rank(i) == Cardinality({j \in 1..n : \/ s[j][field] > s[i][field]
                                           \/ s[j][field] = s[i][field] /\ j < i}) + 1
  IN  [p \in 1..n |-> s[CHOOSE i \in 1..n : Rank(i) = p]]

\* Math.round(num / den) for num >= 0, den > 0 (halves round up)
MathRound(num, den) == (2 * num + den) \div (2 * den)

RECURSIVE SumSeq(_)
SumSeq(s) == IF s = <<>> THEN 0 ELSE Head(s) + SumSeq(Tail(s))

\* ----------------------------------------- lib/metrics.ts, per-domain stats
\* DomainQuery without .eq('domain_normalized', domain)
DomainQueryAnyDomain(T, domain, startDate, endDate) ==
  SelectSeq(T, LAMBDA r : /\ r.timestamp >= StartStamp(startDate)
                          /\ r.timestamp <= EndStamp(endDate))

\* .eq('domain_normalized', domain).gte('timestamp', ..).lte('timestamp', ..)
DomainQuery(T, domain, startDate, endDate) ==
  SelectSeq(T, LAMBDA r : /\ r.domain_normalized = domain
                          /\ r.timestamp >= StartStamp(startDate)
                          /\ r.timestamp <= EndStamp(endDate))

\* BotFilter without the filter
BotFilterKeepAll(rawData, includeBots) == rawData

\* includeBots ? rawData : rawData.filter(item => item.browser_normalized !== 'Bot')
BotFilter(rawData, includeBots) ==
  IF includeBots THEN rawData
  ELSE SelectSeq(rawData, LAMBDA r : r.browser_normalized # "Bot")

\* x || 'Unknown'
OrUnknown(x) == IF x = NULL \/ x = "" THEN "Unknown" ELSE x

\* DimKey that keys a row by its own column, whatever its browser
DimKeyOwnColumn(r, dim) ==
  CASE dim = "browser" -> OrUnknown(r.browser_normalized)
    [] dim = "os"      -> OrUnknown(r.os_normalized)
    [] dim = "device"  -> OrUnknown(r.device_normalized)
    [] dim = "country" -> OrUnknown(r.country)

\* the grouping key each per-domain function computes for a row
DimKey(r, dim) ==
  CASE dim = "browser" -> IF r.browser_normalized = "Bot" THEN "Bot"
                          ELSE OrUnknown(r.browser_normalized)
    [] dim = "os"      -> IF r.browser_normalized = "Bot" THEN "Bot"
                          ELSE OrUnknown(r.os_normalized)
    [] dim = "device"  -> IF r.browser_normalized = "Bot" THEN "Bot"
                          ELSE OrUnknown(r.device_normalized)
    [] dim = "country" -> OrUnknown(r.country)

\* new Set(filteredData.map(item => item.ip)).size
TotalVisitorsJS(filteredData) == SetSize(Ips(filteredData))

\* totalVisitors > 0 ? Math.round((ips.size / totalVisitors) * 100) : 0
PercentageJS(visitors, totalVisitors) ==
  IF totalVisitors > 0 THEN 10 * MathRound(100 * visitors, totalVisitors) ELSE 0

\* body shared by get{Browser,OS,Device,Country}StatsForDomain
StatsForDomain(T, dim, domain, startDate, endDate, includeBots, outcome) ==
  LET rawData == DomainQuery(T, domain, startDate, endDate)
      filteredData == BotFilter(rawData, includeBots)
      keys == KeysInOrder([i \in 1..Len(filteredData) |-> DimKey(filteredData[i], dim)])
      totalVisitors == TotalVisitorsJS(filteredData)
      Entry(k) ==
        LET mine == SelectSeq(filteredData, LAMBDA r : DimKey(r, dim) = k)
            ips == SetSize(Ips(mine))
        IN  [key |-> k, views |-> Len(mine), visitors |-> ips,
             percentage |-> Val(PercentageJS(ips, totalVisitors))]
      stats == [i \in 1..Len(keys) |-> Entry(keys[i])]
  IN  IF outcome = "reject"
        THEN [status |-> "threw", data |-> <<>>, totalVisitors |-> 0]
      ELSE IF outcome = "error" \/ Len(rawData) = 0 \/ Len(filteredData) = 0
        THEN [status |-> "returned", data |-> <<>>, totalVisitors |-> 0]
      ELSE [status |-> "returned",
            data |-> SortDesc(stats, "visitors"),
            totalVisitors |-> totalVisitors]

getBrowserStatsForDomain(T, domain, startDate, endDate, includeBots, outcome) ==
  StatsForDomain(T, "browser", domain, startDate, endDate, includeBots, outcome)

getOSStatsForDomain(T, domain, startDate, endDate, includeBots, outcome) ==
  StatsForDomain(T, "os", domain, startDate, endDate, includeBots, outcome)

getDeviceStatsForDomain(T, domain, startDate, endDate, includeBots, outcome) ==
  StatsForDomain(T, "device", domain, startDate, endDate, includeBots, outcome)

getCountryStatsForDomain(T, domain, startDate, endDate, includeBots, outcome) ==
  StatsForDomain(T, "country", domain, startDate, endDate, includeBots, outcome)

\* --------------------------------------------- lib/metrics.ts, global stats
\* .gte('timestamp', `${startDate}T00:00:00Z`).lte('timestamp', `${endDate}T23:59:59Z`)
RangeQuery(T, startDate, endDate) ==
  SelectSeq(T, LAMBDA r : /\ r.timestamp >= StartStamp(startDate)
                          /\ r.timestamp <= EndStamp(endDate))

\* .not(column, 'is', null), which getDomainStats does not apply
NotNullFilter(r, dim) ==
  CASE dim = "domain"   -> TRUE
    [] dim = "referrer" -> r.referrer_normalized # NULLHOST
    [] dim = "browser"  -> r.browser_normalized # NULL
    [] dim = "os"       -> r.os_normalized # NULL
    [] dim = "device"   -> r.device_normalized # NULL
    [] dim = "country"  -> r.country # NULL

\* the column each global function groups by
GlobalKey(r, dim) ==
  CASE dim = "domain"   -> r.domain
    [] dim = "referrer" -> r.referrer_normalized
    [] dim = "browser"  -> r.browser_normalized
    [] dim = "os"       -> r.os_normalized
    [] dim = "device"   -> r.device_normalized
    [] dim = "country"  -> r.country

\* the number of distinct ips of the rows of one raw domain in the range;
\* 0 when the read reports an error
getUniqueVisitors(T, domain, startDate, endDate, outcome) ==
  IF outcome # "ok" THEN 0
  ELSE SetSize(Ips(SelectSeq(RangeQuery(T, startDate, endDate),
                             LAMBDA r : r.domain = domain)))

\* Math.round((views / totalViews) * 1000) / 10, in tenths
PercentageOfViews(views, totalViews) == MathRound(1000 * views, totalViews)

\* one entry of a global function: getDomainStats reads the visitors with
\* getUniqueVisitors, the others count the ips of the group
GlobalEntry(T, dim, startDate, endDate, outcome, data, mine, k) ==
  [key |-> k, views |-> Len(mine),
   visitors |-> IF dim = "domain"
                  THEN getUniqueVisitors(T, k, startDate, endDate, outcome)
                  ELSE SetSize(Ips(mine)),
   percentage |-> Val(PercentageOfViews(Len(mine), Len(data)))]

GlobalEntries(T, dim, startDate, endDate, outcome, data, keys) ==
  [i \in 1..Len(keys) |->
     GlobalEntry(T, dim, startDate, endDate, outcome, data,
                 SelectSeq(data, LAMBDA r : GlobalKey(r, dim) = keys[i]), keys[i])]

\* the number of reads a global function issues: getDomainStats reads once
\* more per domain it found
GlobalReads(dim, outcome, keys) ==
  IF dim = "domain" /\ outcome = "ok" THEN 1 + Len(keys) ELSE 1

\* the body of a global function once the first read returned data
GlobalStatsOf(T, dim, startDate, endDate, outcome, data, keys) ==
  IF outcome = "reject"
    THEN [status |-> "threw", data |-> <<>>, reads |-> 1]
  ELSE IF outcome = "error" \/ Len(data) = 0
    THEN [status |-> "returned", data |-> <<>>, reads |-> 1]
  ELSE [status |-> "returned",
        data |-> SortDesc(GlobalEntries(T, dim, startDate, endDate, outcome, data, keys),
                          "views"),
        reads |-> GlobalReads(dim, outcome, keys)]

GlobalKeys(data, dim) == KeysInOrder([i \in 1..Len(data) |-> GlobalKey(data[i], dim)])

GlobalData(T, dim, startDate, endDate) ==
  SelectSeq(RangeQuery(T, startDate, endDate), LAMBDA r : NotNullFilter(r, dim))

\* body shared by get{Domain,Referrer,Browser,OS,Device,Country}Stats
GlobalStats(T, dim, startDate, endDate, outcome) ==
  GlobalStatsOf(T, dim, startDate, endDate, outcome,
                GlobalData(T, dim, startDate, endDate),
                GlobalKeys(GlobalData(T, dim, startDate, endDate), dim))

getDomainStats(T, startDate, endDate, outcome) ==
  GlobalStats(T, "domain", startDate, endDate, outcome)

getReferrerStats(T, startDate, endDate, outcome) ==
  GlobalStats(T, "referrer", startDate, endDate, outcome)

getBrowserStats(T, startDate, endDate, outcome) ==
  GlobalStats(T, "browser", startDate, endDate, outcome)

getOSStats(T, startDate, endDate, outcome) ==
  GlobalStats(T, "os", startDate, endDate, outcome)

getDeviceStats(T, startDate, endDate, outcome) ==
  GlobalStats(T, "device", startDate, endDate, outcome)

getCountryStats(T, startDate, endDate, outcome) ==
  GlobalStats(T, "country", startDate, endDate, outcome)

\* ------------------------------------- setup/sql/get_dashboard_data.sql
\* s LIKE p, with the wildcards % and _ and the escape character \
RECURSIVE Like(_, _)
Like(s, p) ==
  IF p = <<>> THEN s = <<>>
  ELSE IF Head(p) = "%"
    THEN Like(s, Tail(p)) \/ (s # <<>> /\ Like(Tail(s), p))
  ELSE IF Head(p) = "_"
    THEN s # <<>> /\ Like(Tail(s), Tail(p))
  ELSE IF Head(p) = "\\" /\ Len(p) > 1
    THEN s # <<>> /\ Head(s) = p[2] /\ Like(Tail(s), Tail(Tail(p)))
  ELSE s # <<>> /\ Head(s) = Head(p) /\ Like(Tail(s), Tail(p))

\* timestamp range, domains filter and domains_under_contract exclusion
CommonWhere(r, start_date, end_date, domains, uc) ==
  /\ r.timestamp >= start_date
  /\ r.timestamp <= end_date
  /\ (domains = JsonNull \/ r.domain_normalized \in domains.v)
  /\ ~(\E duc \in uc : duc = r.domain_normalized)

\* SelfReferral without its third test, domain LIKE '%.' || referrer
SelfReferralNoParentTest(r) ==
  IF r.domain_normalized = NULLHOST THEN JsonNull
  ELSE Val(\/ r.referrer_normalized = r.domain_normalized
           \/ Like(r.referrer_normalized, <<"%", ".">> \o r.domain_normalized))

\* referrer = domain OR referrer LIKE '%.' || domain OR domain LIKE '%.' || referrer
\* (NULL when domain_normalized is NULL; here the referrer is not NULL)
SelfReferral(r) ==
  IF r.domain_normalized = NULLHOST THEN JsonNull
  ELSE Val(\/ r.referrer_normalized = r.domain_normalized
           \/ Like(r.referrer_normalized, <<"%", ".">> \o r.domain_normalized)
           \/ Like(r.domain_normalized, <<"%", ".">> \o r.referrer_normalized))

\* the self-referral test of each row the table can hold
SelfReferrals == [r \in RowPool |-> SelfReferral(r)]

\* the WHERE clause of the referrer section
ReferrerWhere(r, start_date, end_date, domains, uc, exclude_self_referrals) ==
  /\ r.referrer_normalized # NULLHOST
  /\ CommonWhere(r, start_date, end_date, domains, uc)
  /\ \/ ~exclude_self_referrals
     \/ (SelfReferrals[r] # JsonNull /\ ~SelfReferrals[r].v)

\* does s match  [^.]+ \\ . [^.]+  (a literal backslash, then any character)
MatchesRootPattern(s) ==
  \E i \in 2..(Len(s) - 2) :
    /\ s[i] = "\\"
    /\ \A j \in 1..(i - 1) : s[j] # "."
    /\ \A j \in (i + 2)..Len(s) : s[j] # "."

\* regexp_replace(referrer_normalized, '^.*?([^.]+\\.[^.]+)$', '\\1')
RootDomain(s) ==
  IF \E k \in 0..Len(s) : MatchesRootPattern(SubSeq(s, k + 1, Len(s)))
    THEN <<"\\", "1">>
    ELSE s

\* the regexp_replace of each referrer the table can hold
RootDomains == [s \in {r.referrer_normalized : r \in RowPool} |-> RootDomain(s)]

\* COALESCE(x, 'Other')
Coalesce(x) == IF x = NULL THEN "Other" ELSE x

\* the rows each section's filtered_views CTE keeps, in scan order
SectionRows(scan, dim, p, uc) ==
  CASE dim = "referrer" ->
         SelectSeq(scan, LAMBDA r : ReferrerWhere(r, p.start_date, p.end_date, p.domains,
                                                  uc, p.exclude_self_referrals))
    [] dim = "country" ->
         SelectSeq(scan, LAMBDA r : /\ CommonWhere(r, p.start_date, p.end_date, p.domains, uc)
                                    /\ r.country # NULL)
    [] OTHER ->
         SelectSeq(scan, LAMBDA r : CommonWhere(r, p.start_date, p.end_date, p.domains, uc))

\* the GROUP BY expression of each section
SectionKey(r, dim, p) ==
  CASE dim = "domain"   -> r.domain_normalized
    [] dim = "referrer" -> IF p.group_referrers_by_domain
                             THEN RootDomains[r.referrer_normalized]
                             ELSE r.referrer_normalized
    [] dim = "browser"  -> Coalesce(r.browser_normalized)
    [] dim = "os"       -> Coalesce(r.os_normalized)
    [] dim = "device"   -> Coalesce(r.device_normalized)
    [] dim = "country"  -> r.country

\* COUNT(DISTINCT ip): NULLs are not counted
CountDistinctIp(rs) == Cardinality({rs[i].ip : i \in 1..Len(rs)} \ {NULL})

\* COUNT(*) AS views, COUNT(DISTINCT ip) AS visitors of the rows in one group
GroupCounts(mine, k) ==
  [key |-> k, views |-> Len(mine), visitors |-> CountDistinctIp(mine)]

\* one output row per group key
Groups(fv, dim, p, keys) ==
  [i \in 1..Len(keys) |->
     GroupCounts(SelectSeq(fv, LAMBDA r : SectionKey(r, dim, p) = keys[i]), keys[i])]

\* GROUP BY the section's key, groups in the order the scan meets them
GroupBy(fv, dim, p) ==
  Groups(fv, dim, p, KeysInOrder([i \in 1..Len(fv) |-> SectionKey(fv[i], dim, p)]))

\* SectionCounts without the HAVING clause
SectionCountsNoHaving(scan, dim, p, uc) ==
  GroupBy(SectionRows(scan, dim, p, uc), dim, p)

\* the *_counts CTE: GROUP BY ... HAVING COUNT(*) >= min_views
SectionCounts(scan, dim, p, uc) ==
  SelectSeq(GroupBy(SectionRows(scan, dim, p, uc), dim, p),
            LAMBDA c : c.views >= p.min_views)

\* SELECT SUM(visitors) AS total
TotalVisitorsSQL(counts) == SumSeq(Column(counts, "visitors"))

\* ROUND((visitors::numeric / NULLIF(total, 0)) * 100, 1)
PercentageSQL(visitors, total) ==
  IF total = 0 THEN JsonNull
  ELSE Val((2000 * visitors + total) \div (2 * total))

\* LIMIT n: NULL is no limit
Limit(s, n) ==
  IF n = JsonNull THEN s
  ELSE SubSeq(s, 1, IF n.v < Len(s) THEN n.v ELSE Len(s))

\* the select list of the *_result CTE, for the counts and the total of a section
WithPercentages(counts, total) ==
  [i \in 1..Len(counts) |->
     [key |-> counts[i].key, views |-> counts[i].views,
      visitors |-> counts[i].visitors,
      percentage |-> PercentageSQL(counts[i].visitors, total)]]

\* the *_result CTE before ORDER BY and LIMIT: counts CROSS JOIN total_visitors
SectionResult(counts) == WithPercentages(counts, TotalVisitorsSQL(counts))

\* Section with the LIMIT applied before the total is taken
SectionLimitFirst(scan, dim, p, uc) ==
  SectionResult(Limit(SortDesc(SectionCounts(scan, dim, p, uc), "views"),
                      p.max_results_per_section))

\* one section: counts, total, percentages, ORDER BY views DESC, LIMIT.
\* Rows with equal views come out in an order SQL leaves open: the order in
\* which the scan met their groups.
Section(scan, dim, p, uc) ==
  Limit(SortDesc(SectionResult(SectionCounts(scan, dim, p, uc)), "views"),
        p.max_results_per_section)

\* the six dimensions of the bundle
Dims == {"domain", "referrer", "browser", "os", "device", "country"}

\* the final SELECT json_build_object(...) over the six sections
BundleOf(section) ==
  [domains   |-> section["domain"],
   referrers |-> section["referrer"],
   browsers  |-> section["browser"],
   os        |-> section["os"],
   devices   |-> section["device"],
   countries |-> section["country"]]

EmptyBundle ==
  [domains |-> <<>>, referrers |-> <<>>, browsers |-> <<>>,
   os |-> <<>>, devices |-> <<>>, countries |-> <<>>]

\* the stored procedure; scan is the table in the order the executor reads it.
\* A negative LIMIT makes the statement fail.
NegativeLimit(p) ==
  p.max_results_per_section # JsonNull /\ p.max_results_per_section.v < 0

get_dashboard_data(scan, p, uc) ==
  IF NegativeLimit(p)
    THEN [error |-> TRUE, data |-> JsonNull]
    ELSE [error |-> FALSE,
          data |-> Val(BundleOf([dim \in Dims |-> Section(scan, dim, p, uc)]))]

\* the orders in which the executor may read a table of n rows: a forward
\* scan of the heap, or a backward one
Identity(n) == [i \in 1..n |-> i]

Reverse(n) == [i \in 1..n |-> n + 1 - i]

ScanOrders(n) == {Identity(n), Reverse(n)}

Scan(T, order) == [i \in 1..Len(T) |-> T[order[i]]]

\* ------------------------------------------------ lib/api.ts (getDashboardData)
Undefined == [t |-> "undefined"]

\* x ?? d
Nullish(x, d) == IF x = Undefined \/ x = JsonNull THEN d ELSE x

\* JSON.stringify of a property value: NaN becomes null, undefined is left out
\* (the procedure then sees no value for it)
ToJSON(x) == IF x = NaN \/ x = Undefined THEN JsonNull ELSE x

DefaultMaxResults == 50

\* format(date, "yyyy-MM-dd'T'HH:mm:ss'Z'"): the local wall clock, labelled Z
formatDate(date, offset) == date + offset

\* the arguments getDashboardData passes to supabase.rpc
RpcParams(startDate, endDate, options, offset) ==
  [start_date |-> formatDate(startDate, offset),
   end_date |-> formatDate(endDate, offset),
   domains |-> IF options.domains = Undefined THEN JsonNull ELSE options.domains,
   exclude_self_referrals |-> Nullish(options.excludeSelfReferrals, Val(TRUE)).v,
   group_referrers_by_domain |-> Nullish(options.groupReferrersByDomain, Val(TRUE)).v,
   min_views |-> Nullish(options.minViews, Val(1)).v,
   max_results_per_section |->
     ToJSON(Nullish(options.maxResultsPerSection, Val(DefaultMaxResults)))]

\* supabase.rpc('get_dashboard_data', params): the client reports a fault of
\* the row source as an error value, or the call rejects
Rpc(T, order, p, uc, outcome) ==
  IF outcome = "reject" THEN [threw |-> TRUE, error |-> TRUE, data |-> JsonNull]
  ELSE IF outcome = "error" THEN [threw |-> FALSE, error |-> TRUE, data |-> JsonNull]
  ELSE [threw |-> FALSE] @@ get_dashboard_data(Scan(T, order), p, uc)

\* what getDashboardData makes of the outcome r of the rpc call: a rejection
\* propagates, if (error) gives the empty bundle, else data || the empty bundle
DashboardResult(r) ==
  IF r.threw THEN [status |-> "threw", data |-> JsonNull]
  ELSE IF r.error THEN [status |-> "returned", data |-> Val(EmptyBundle)]
  ELSE [status |-> "returned",
        data |-> IF r.data = JsonNull THEN Val(EmptyBundle) ELSE r.data]

getDashboardData(T, order, startDate, endDate, options, offset, uc, outcome) ==
  DashboardResult(Rpc(T, order, RpcParams(startDate, endDate, options, offset), uc, outcome))

\* --------------------------------------------- app/api/stats/route.ts (GET)
DigitChars == {"0", "1", "2", "3", "4", "5", "6", "7", "8", "9"}

DigitVal(c) ==
  CASE c = "0" -> 0 [] c = "1" -> 1 [] c = "2" -> 2 [] c = "3" -> 3 [] c = "4" -> 4
    [] c = "5" -> 5 [] c = "6" -> 6 [] c = "7" -> 7 [] c = "8" -> 8 [] c = "9" -> 9

\* the value of the leading decimal digits of s, after acc
RECURSIVE LeadingDigits(_, _)
LeadingDigits(s, acc) ==
  IF s = <<>> \/ Head(s) \notin DigitChars THEN acc
  ELSE LeadingDigits(Tail(s), 10 * acc + DigitVal(Head(s)))

\* parseInt(s): optional sign, then the leading digits; NaN when there are none
parseInt(s) ==
  LET signed == s # <<>> /\ Head(s) \in {"-", "+"}
      body == IF signed THEN Tail(s) ELSE s
  IN  IF body = <<>> \/ Head(body) \notin DigitChars THEN NaN
      ELSE IF signed /\ Head(s) = "-" THEN Val(0 - LeadingDigits(body, 0))
      ELSE Val(LeadingDigits(body, 0))

\* searchParams.get(name) of a parameter that is not in the URL
AbsentParam == <<"null">>

RouteDefaultMaxResults == 200

\* maxResults ? parseInt(maxResults) : 200
RouteMaxResults(maxResults) ==
  IF maxResults = AbsentParam \/ maxResults = <<>> THEN Val(RouteDefaultMaxResults)
  ELSE parseInt(maxResults)

\* new Date('YYYY-MM-DD'): midnight UTC of that day
NewDate(date) == date * Day

\* date.setHours(23, 59, 59, 999), whole seconds kept: the end of the local day
SetHoursEndOfDay(date, offset) == ((date + offset) \div Day) * Day + EndOfDay - offset

\* the options the route passes for type=all
RouteOptions(maxResults) ==
  [domains |-> Undefined,
   excludeSelfReferrals |-> Val(TRUE),
   groupReferrersByDomain |-> Val(TRUE),
   minViews |-> Val(1),
   maxResultsPerSection |-> RouteMaxResults(maxResults)]

RouteEndDateTime(startDate, endDate, offset) ==
  IF startDate = endDate THEN SetHoursEndOfDay(NewDate(endDate), offset)
  ELSE NewDate(endDate)

\* NextResponse.json({ data: dashboardData }), or the catch block's 500
RouteResult(dashboardData) ==
  IF dashboardData.status = "threw"
    THEN [http |-> 500, body |-> [error |-> "An error occurred while fetching data"]]
    ELSE [http |-> 200, body |-> [data |-> dashboardData.data.v]]

\* GET /api/stats?type=all&startDate=..&endDate=..[&maxResults=..]
StatsRouteAll(T, order, startDate, endDate, maxResults, offset, uc, outcome) ==
  RouteResult(getDashboardData(T, order, NewDate(startDate),
                               RouteEndDateTime(startDate, endDate, offset),
                               RouteOptions(maxResults), offset, uc, outcome))

\* a query parameter that is present and empty
EmptyString == [t |-> "empty"]

\* !x for the value of searchParams.get: null when absent, or ""
Falsy(x) == x = JsonNull \/ x = EmptyString

\* BadRequest without the { status: 400 } argument
BadRequestNoStatus(message) == [http |-> 200, body |-> [error |-> message], reads |-> 0]

\* NextResponse.json({ error }, { status: 400 }): returned before any read
BadRequest(message) == [http |-> 400, body |-> [error |-> message], reads |-> 0]

\* what the route makes of the result of one metrics function
SingleResult(r) ==
  IF r.status = "threw"
    THEN [http |-> 500, body |-> [error |-> "An error occurred while fetching data"],
          reads |-> r.reads]
    ELSE [http |-> 200, body |-> [data |-> r.data], reads |-> r.reads]

\* the switch on statsType
StatsSwitch(T, order, statsType, startDate, endDate, maxResults, offset, uc, outcome) ==
  CASE statsType = "domains"   -> SingleResult(getDomainStats(T, startDate, endDate, outcome))
    [] statsType = "referrers" -> SingleResult(getReferrerStats(T, startDate, endDate, outcome))
    [] statsType = "browsers"  -> SingleResult(getBrowserStats(T, startDate, endDate, outcome))
    [] statsType = "os"        -> SingleResult(getOSStats(T, startDate, endDate, outcome))
    [] statsType = "devices"   -> SingleResult(getDeviceStats(T, startDate, endDate, outcome))
    [] statsType = "countries" -> SingleResult(getCountryStats(T, startDate, endDate, outcome))
    [] statsType = "all" ->
         StatsRouteAll(T, order, startDate, endDate, maxResults, offset, uc, outcome)
           @@ [reads |-> 1]
    [] OTHER ->
         BadRequest("Invalid stat type. Must be one of: domains, referrers, browsers, os, devices, countries, all")

\* GET /api/stats: the whole handler
StatsRoute(T, order, req, offset, uc, outcome) ==
  IF Falsy(req.startDate) \/ Falsy(req.endDate)
    THEN BadRequest("startDate and endDate are required")
  ELSE IF Falsy(req.type)
    THEN BadRequest("stat type is required")
  ELSE StatsSwitch(T, order, req.type.v, req.startDate.v, req.endDate.v, req.maxResults,
                   offset, uc, outcome)

\* ---------------------------------------- lib/metrics.ts, getDomainHits
\* query.neq('browser_normalized', 'Bot'): a row whose browser is NULL does
\* not satisfy <> either
NeqBot(data, includeBots) ==
  IF includeBots THEN data
  ELSE SelectSeq(data, LAMBDA r : r.browser_normalized # NULL /\ r.browser_normalized # "Bot")

\* item.path || '/'
OrSlash(x) == IF x = NULLHOST \/ x = <<>> THEN <<"/">> ELSE x

\* item.referrer_normalized || ''
OrEmpty(x) == IF x = NULLHOST THEN <<>> ELSE x

\* item.country || 'unknown'
OrUnknownCountry(x) == IF x = NULL \/ x = "" THEN "unknown" ELSE x

Hit(item) ==
  [page |-> OrSlash(item.path), referrer |-> OrEmpty(item.referrer_normalized),
   ip |-> item.ip, timestamp |-> item.timestamp, country |-> OrUnknownCountry(item.country)]

Hits(data) == [i \in 1..Len(data) |-> Hit(data[i])]

getDomainHits(T, domain, startDate, endDate, includeBots, outcome) ==
  IF outcome = "reject" THEN [status |-> "threw", data |-> <<>>]
  ELSE IF outcome = "error" THEN [status |-> "returned", data |-> <<>>]
  ELSE [status |-> "returned",
        data |-> Hits(SortDesc(NeqBot(DomainQuery(T, domain, startDate, endDate),
                                      includeBots), "timestamp"))]

\* ------------------------------------------ app/api/stats/domain/route.ts
\* Promise.all of the five per-domain reads and the response built from them
DomainAllResult(hits, browsers, os, devices, countries) ==
  IF "threw" \in {hits.status, browsers.status, os.status, devices.status, countries.status}
    THEN [http |-> 500, body |-> [error |-> "An error occurred while fetching domain data"],
          reads |-> 5]
    ELSE [http |-> 200,
          body |-> [data |-> [hits |-> hits.data, browsers |-> browsers.data,
                              os |-> os.data, devices |-> devices.data,
                              countries |-> countries.data]],
          reads |-> 5]

\* the default branch: the hits alone
DomainHitsResult(hits) ==
  IF hits.status = "threw"
    THEN [http |-> 500, body |-> [error |-> "An error occurred while fetching domain data"],
          reads |-> 1]
    ELSE [http |-> 200, body |-> [data |-> hits.data], reads |-> 1]

\* the handler once includeBots is settled
DomainRouteWith(T, req, includeBots, outcome) ==
  IF Falsy(req.startDate) \/ Falsy(req.endDate) \/ Falsy(req.domain)
    THEN BadRequest("startDate, endDate, and domain are required")
  ELSE IF req.type = Val("all")
    THEN DomainAllResult(
           getDomainHits(T, req.domain.v, req.startDate.v, req.endDate.v, includeBots, outcome),
           getBrowserStatsForDomain(T, req.domain.v, req.startDate.v, req.endDate.v,
                                    includeBots, outcome),
           getOSStatsForDomain(T, req.domain.v, req.startDate.v, req.endDate.v,
                               includeBots, outcome),
           getDeviceStatsForDomain(T, req.domain.v, req.startDate.v, req.endDate.v,
                                   includeBots, outcome),
           getCountryStatsForDomain(T, req.domain.v, req.startDate.v, req.endDate.v,
                                    includeBots, outcome))
  ELSE DomainHitsResult(
         getDomainHits(T, req.domain.v, req.startDate.v, req.endDate.v, includeBots, outcome))

\* searchParams.get('includeBots') === 'true'
IncludeBotsParam(req) == req.includeBots = Val("true")

\* GET /api/stats/domain, the handler that reads the includeBots parameter
DomainRoute(T, req, outcome) == DomainRouteWith(T, req, IncludeBotsParam(req), outcome)

\* GET /api/stats/domain, the handler that calls the metrics functions without
\* includeBots, whose default is true
DomainRouteDefaultBots(T, req, outcome) == DomainRouteWith(T, req, TRUE, outcome)

\* ---------------------------------------- app/api/stats/referrer/route.ts
\* lower case of the characters host names are written with
Lower(c) ==
  CASE c = "A" -> "a" [] c = "C" -> "c" [] c = "G" -> "g" [] c = "W" -> "w" [] OTHER -> c

LowerSeq(s) == [i \in 1..Len(s) |-> Lower(s[i])]

\* s ILIKE p; NULL matches nothing
ILike(s, p) == s # NULLHOST /\ Like(LowerSeq(s), LowerSeq(p))

\* the rows the referrer route reads
ReferrerQuery(T, referrerDomain, startDate, endDate) ==
  SelectSeq(RangeQuery(T, startDate, endDate),
            LAMBDA r : ILike(r.referrer_normalized, <<"%">> \o referrerDomain \o <<"%">>))

DirectNone == <<"D", "i", "r", "e", "c", "t", " ", "/", " ", "N", "o", "n", "e">>

\* item.referrer || 'Direct / None'
ReferrerPage(item) ==
  IF item.referrer = NULLHOST \/ item.referrer = <<>> THEN DirectNone ELSE item.referrer

\* `${item.domain}${item.path}`
TargetPage(item) == item.domain \o item.path

\* `${referrerPage}|${targetPage}`
PairKey(item) == ReferrerPage(item) \o <<"|">> \o TargetPage(item)

\* the Map entry of one pair key: the pages are those of the first row that
\* had the key, views and visitors count every row that has it
PairEntry(mine, totalViews) ==
  [referrerPage |-> ReferrerPage(mine[1]), targetPage |-> TargetPage(mine[1]),
   views |-> Len(mine), visitors |-> SetSize(Ips(mine)),
   percentage |-> Val(PercentageOfViews(Len(mine), totalViews))]

PairEntries(data, keys) ==
  [i \in 1..Len(keys) |->
     PairEntry(SelectSeq(data, LAMBDA r : PairKey(r) = keys[i]), Len(data))]

\* the aggregation of the matched rows
ReferrerPairs(data) ==
  SortDesc(PairEntries(data, KeysInOrder([i \in 1..Len(data) |-> PairKey(data[i])])),
           "views")

\* the handler after the read
ReferrerResult(data, outcome) ==
  IF outcome = "reject"
    THEN [http |-> 500, body |-> [error |-> "An error occurred while fetching data"],
          reads |-> 1]
  ELSE IF outcome = "error"
    THEN [http |-> 500, body |-> [error |-> "An error occurred while fetching referrer data"],
          reads |-> 1]
  ELSE IF Len(data) = 0 THEN [http |-> 200, body |-> [data |-> <<>>], reads |-> 1]
  ELSE [http |-> 200, body |-> [data |-> ReferrerPairs(data)], reads |-> 1]

\* GET /api/stats/referrer
ReferrerRoute(T, req, outcome) ==
  IF Falsy(req.startDate) \/ Falsy(req.endDate) \/ Falsy(req.referrerDomain)
    THEN BadRequest("startDate, endDate, and referrerDomain are required")
  ELSE ReferrerResult(ReferrerQuery(T, req.referrerDomain.v, req.startDate.v, req.endDate.v),
                      outcome)

\* ---------------------------------------------------------------- actions
NoResp == [op |-> "none"]

\* no request is being served step by step
Idle == [op |-> "none"]

\* a page or component that is not mounted
Unmounted == [mounted |-> FALSE]

\* nothing is open in the browser
NoClient ==
  /\ domainPage = Unmounted
  /\ hitsTable = Unmounted
  /\ statsTable = Unmounted

Init ==
  /\ rows = <<>>
  /\ underContract \in {{}, {HostWA}}
  /\ tz \in TZOffsets
  /\ resp = NoResp
  /\ run = Idle
  /\ NoClient

\* the ingestion process appends a page view.  resp is the response computed
\* in the last step from the table as it is now, so a step that changes the
\* table leaves none.
Ingest ==
  /\ Len(rows) < MaxRows
  /\ \E r \in RowPool : rows' = Append(rows, r)
  /\ resp' = NoResp
  /\ UNCHANGED <<underContract, tz, run, client>>

\* the response has been sent; no request is being served
Respond ==
  /\ resp.op # "none"
  /\ resp' = NoResp
  /\ UNCHANGED <<rows, underContract, tz, run, client>>

\* the response to a call of one of the per-domain functions
PerDomainResp(dim, domain, range, includeBots, outcome, result) ==
  [op |-> "statsForDomain", dim |-> dim, domain |-> domain, range |-> range,
   includeBots |-> includeBots, read |-> rows, outcome |-> outcome,
   status |-> result.status, data |-> result.data,
   totalVisitors |-> result.totalVisitors]

GetBrowserStatsForDomain ==
  /\ resp.op = "none"
  /\ \E domain \in Domains, range \in DateRanges, includeBots \in BOOLEAN,
        outcome \in ClientOutcomes :
       resp' = PerDomainResp("browser", domain, range, includeBots, outcome,
                 getBrowserStatsForDomain(rows, domain, range[1], range[2], includeBots, outcome))
  /\ UNCHANGED <<rows, underContract, tz, run, client>>

GetOSStatsForDomain ==
  /\ resp.op = "none"
  /\ \E domain \in Domains, range \in DateRanges, includeBots \in BOOLEAN,
        outcome \in ClientOutcomes :
       resp' = PerDomainResp("os", domain, range, includeBots, outcome,
                 getOSStatsForDomain(rows, domain, range[1], range[2], includeBots, outcome))
  /\ UNCHANGED <<rows, underContract, tz, run, client>>

GetDeviceStatsForDomain ==
  /\ resp.op = "none"
  /\ \E domain \in Domains, range \in DateRanges, includeBots \in BOOLEAN,
        outcome \in ClientOutcomes :
       resp' = PerDomainResp("device", domain, range, includeBots, outcome,
                 getDeviceStatsForDomain(rows, domain, range[1], range[2], includeBots, outcome))
  /\ UNCHANGED <<rows, underContract, tz, run, client>>

GetCountryStatsForDomain ==
  /\ resp.op = "none"
  /\ \E domain \in Domains, range \in DateRanges, includeBots \in BOOLEAN,
        outcome \in ClientOutcomes :
       resp' = PerDomainResp("country", domain, range, includeBots, outcome,
                 getCountryStatsForDomain(rows, domain, range[1], range[2], includeBots, outcome))
  /\ UNCHANGED <<rows, underContract, tz, run, client>>

\* the options a caller of getDashboardData passes
Options(dom, ex, gr, mv, mx) ==
  [domains |-> dom, excludeSelfReferrals |-> ex, groupReferrersByDomain |-> gr,
   minViews |-> mv, maxResultsPerSection |-> mx]

OptionSets ==
  { Options(Undefined, Undefined, Undefined, Undefined, Undefined),
    Options(Undefined, Val(FALSE), Undefined, Undefined, Undefined),
    Options(Undefined, Undefined, Val(FALSE), Undefined, Undefined),
    Options(Undefined, Val(FALSE), Val(FALSE), Val(2), Undefined),
    Options(Undefined, Undefined, Undefined, Val(2), Undefined),
    Options(Undefined, Undefined, Undefined, Undefined, Val(1)),
    Options(Val({HostA}), Undefined, Undefined, Undefined, Undefined),
    Options(Undefined, Val(FALSE), Undefined, Val(2), Val(1)) }

MaxResultsParams ==
  { AbsentParam, <<"1">>, <<"2">>, <<"0">>, <<"a", "b", "c">>, <<"-", "1">> }

\* the scan order matters only when the procedure runs
Orders(outcome) == IF outcome = "ok" THEN ScanOrders(Len(rows)) ELSE {Identity(Len(rows))}

\* the response to getDashboardData(startDate, endDate, options), called with
\* the first instant of range[1] and the last second of range[2]
DashboardRespOf(range, options, outcome, result) ==
  [op |-> "getDashboardData", read |-> rows, outcome |-> outcome,
   range |-> range, options |-> options,
   params |-> RpcParams(StartStamp(range[1]), EndStamp(range[2]), options, tz),
   status |-> result.status, data |-> result.data]

DashboardResp(range, options, outcome, order) ==
  DashboardRespOf(range, options, outcome,
                  getDashboardData(rows, order, StartStamp(range[1]), EndStamp(range[2]),
                                   options, tz, underContract, outcome))

\* the response to GET /api/stats?type=all
RouteRespOf(range, maxResults, outcome, result) ==
  [op |-> "GET /api/stats", type |-> "all", read |-> rows, outcome |-> outcome,
   range |-> range, maxResults |-> maxResults,
   options |-> RouteOptions(maxResults),
   params |-> RpcParams(NewDate(range[1]), RouteEndDateTime(range[1], range[2], tz),
                        RouteOptions(maxResults), tz),
   http |-> result.http, body |-> result.body]

\* the query parameters of a request to /api/stats
StatsRequest(startDate, endDate, type, maxResults) ==
  [startDate |-> startDate, endDate |-> endDate, type |-> type, maxResults |-> maxResults]

RouteResp(range, maxResults, outcome, order) ==
  RouteRespOf(range, maxResults, outcome,
              StatsRoute(rows, order,
                         StatsRequest(Val(range[1]), Val(range[2]), Val("all"), maxResults),
                         tz, underContract, outcome))

\* a caller invokes getDashboardData
GetDashboardData ==
  /\ resp.op = "none"
  /\ \E range \in DateRanges, options \in OptionSets, outcome \in ClientOutcomes :
       \E order \in Orders(outcome) :
         resp' = DashboardResp(range, options, outcome, order)
  /\ UNCHANGED <<rows, underContract, tz, run, client>>

\* a client requests GET /api/stats?type=all
GetStatsAll ==
  /\ resp.op = "none"
  /\ \E range \in DateRanges, maxResults \in MaxResultsParams, outcome \in ClientOutcomes :
       \E order \in Orders(outcome) :
         resp' = RouteResp(range, maxResults, outcome, order)
  /\ UNCHANGED <<rows, underContract, tz, run, client>>

\* the single-dimension requests to /api/stats, and requests that lack a
\* parameter or name no known type
SingleTypes == {"domains", "referrers", "browsers", "os", "devices", "countries"}

StatsRequests ==
  { StatsRequest(Val(range[1]), Val(range[2]), Val(type), AbsentParam) :
      range \in DateRanges, type \in SingleTypes }
  \cup { StatsRequest(JsonNull, Val(1), Val("all"), AbsentParam),
         StatsRequest(Val(1), EmptyString, Val("domains"), AbsentParam),
         StatsRequest(Val(1), Val(3), JsonNull, AbsentParam),
         StatsRequest(Val(1), Val(3), EmptyString, AbsentParam),
         StatsRequest(Val(1), Val(3), Val("visitors"), AbsentParam) }

\* the response of a route to the request req
HttpResp(op, req, outcome, result) ==
  [op |-> op, req |-> req, read |-> rows, outcome |-> outcome,
   http |-> result.http, body |-> result.body, reads |-> result.reads]

\* a client requests GET /api/stats with a single-dimension type, or with a
\* request the handler refuses
GetStats ==
  /\ resp.op = "none"
  /\ \E req \in StatsRequests, outcome \in ClientOutcomes :
       resp' = HttpResp("GET /api/stats/:type", req, outcome,
                        StatsRoute(rows, Identity(Len(rows)), req, tz, underContract, outcome))
  /\ UNCHANGED <<rows, underContract, tz, run, client>>

\* the query parameters of a request to /api/stats/domain
DomainRequest(startDate, endDate, domain, type, includeBots) ==
  [startDate |-> startDate, endDate |-> endDate, domain |-> domain, type |-> type,
   includeBots |-> includeBots]

DomainRequests ==
  { DomainRequest(Val(range[1]), Val(range[2]), Val(HostA), Val("all"), includeBots) :
      range \in DateRanges, includeBots \in {JsonNull, Val("true"), Val("false")} }
  \cup { DomainRequest(Val(1), Val(3), Val(HostWA), Val("all"), JsonNull),
         DomainRequest(Val(1), Val(3), Val(HostA), JsonNull, Val("false")),
         DomainRequest(Val(1), Val(3), JsonNull, Val("all"), JsonNull),
         DomainRequest(Val(1), JsonNull, Val(HostA), Val("all"), Val("true")) }

\* a client requests GET /api/stats/domain
GetDomainStats ==
  /\ resp.op = "none"
  /\ \E req \in DomainRequests, outcome \in ClientOutcomes :
       resp' = HttpResp("GET /api/stats/domain", req, outcome, DomainRoute(rows, req, outcome))
  /\ UNCHANGED <<rows, underContract, tz, run, client>>

\* the same request served by the handler that passes no includeBots
GetDomainStatsDefaultBots ==
  /\ resp.op = "none"
  /\ \E req \in {r \in DomainRequests : r.includeBots = JsonNull},
        outcome \in ClientOutcomes :
       resp' = HttpResp("GET /api/stats/domain (default bots)", req, outcome,
                        DomainRouteDefaultBots(rows, req, outcome))
  /\ UNCHANGED <<rows, underContract, tz, run, client>>

\* the query parameters of a request to /api/stats/referrer
ReferrerRequest(startDate, endDate, referrerDomain, includeBots) ==
  [startDate |-> startDate, endDate |-> endDate, referrerDomain |-> referrerDomain,
   includeBots |-> includeBots]

\* the referrer page sends includeBots with every request
ReferrerRequests ==
  { ReferrerRequest(Val(range[1]), Val(range[2]), Val(host), includeBots) :
      range \in DateRanges, host \in {HostA, HostG},
      includeBots \in {Val("true"), Val("false")} }
  \cup { ReferrerRequest(Val(1), Val(3), JsonNull, Val("true")),
         ReferrerRequest(EmptyString, Val(3), Val(HostG), Val("true")) }

\* a client requests GET /api/stats/referrer
GetReferrerStats ==
  /\ resp.op = "none"
  /\ \E req \in ReferrerRequests, outcome \in ClientOutcomes :
       resp' = HttpResp("GET /api/stats/referrer", req, outcome,
                        ReferrerRoute(rows, req, outcome))
  /\ UNCHANGED <<rows, underContract, tz, run, client>>

\* the request just answered is issued again, unchanged, on the unchanged
\* table, and the row source answers again
RepeatRequest ==
  /\ resp.op # "none"
  /\ resp.outcome = "ok"
  /\ CASE resp.op = "statsForDomain" ->
            resp' = PerDomainResp(resp.dim, resp.domain, resp.range, resp.includeBots, "ok",
                      StatsForDomain(rows, resp.dim, resp.domain, resp.range[1],
                                     resp.range[2], resp.includeBots, "ok"))
       [] resp.op = "getDashboardData" ->
            \E order \in Orders("ok") :
              resp' = DashboardResp(resp.range, resp.options, "ok", order)
       [] resp.op = "GET /api/stats" ->
            \E order \in Orders("ok") :
              resp' = RouteResp(resp.range, resp.maxResults, "ok", order)
       [] resp.op = "GET /api/stats/:type" ->
            resp' = HttpResp(resp.op, resp.req, "ok",
                             StatsRoute(rows, Identity(Len(rows)), resp.req, tz,
                                        underContract, "ok"))
       [] resp.op = "GET /api/stats/domain" ->
            resp' = HttpResp(resp.op, resp.req, "ok", DomainRoute(rows, resp.req, "ok"))
       [] resp.op = "GET /api/stats/domain (default bots)" ->
            resp' = HttpResp(resp.op, resp.req, "ok",
                             DomainRouteDefaultBots(rows, resp.req, "ok"))
       [] resp.op = "GET /api/stats/referrer" ->
            resp' = HttpResp(resp.op, resp.req, "ok", ReferrerRoute(rows, resp.req, "ok"))
  /\ UNCHANGED <<rows, underContract, tz, run, client>>

Next ==
  \/ Ingest
  \/ Respond
  \/ GetBrowserStatsForDomain
  \/ GetOSStatsForDomain
  \/ GetDeviceStatsForDomain
  \/ GetCountryStatsForDomain
  \/ GetDashboardData
  \/ GetStatsAll
  \/ GetStats
  \/ GetDomainStats
  \/ GetDomainStatsDefaultBots
  \/ GetReferrerStats
  \/ RepeatRequest

Spec == Init /\ [][Next]_vars

\* ------------------------------------------- requests served read by read
\* Each supabase query is a request of its own to the row source, so the
\* ingestion process may append rows between the reads of one handler.
MaxRaceRows == 2

\* the five reads the domain route starts in Promise.all
DomainReads == {"hits", "browsers", "os", "devices", "countries"}

\* a read that has not returned
Pending == [status |-> "pending"]

\* one of the five reads, on the table as it is when the read is served
DomainRead(T, q, req, includeBots) ==
  CASE q = "hits" ->
         getDomainHits(T, req.domain.v, req.startDate.v, req.endDate.v, includeBots, "ok")
    [] q = "browsers" ->
         getBrowserStatsForDomain(T, req.domain.v, req.startDate.v, req.endDate.v,
                                  includeBots, "ok")
    [] q = "os" ->
         getOSStatsForDomain(T, req.domain.v, req.startDate.v, req.endDate.v,
                             includeBots, "ok")
    [] q = "devices" ->
         getDeviceStatsForDomain(T, req.domain.v, req.startDate.v, req.endDate.v,
                                 includeBots, "ok")
    [] q = "countries" ->
         getCountryStatsForDomain(T, req.domain.v, req.startDate.v, req.endDate.v,
                                  includeBots, "ok")

\* the type=all requests of the domain page
RaceDomainRequests ==
  { DomainRequest(Val(1), Val(3), Val(HostA), Val("all"), includeBots) :
      includeBots \in {Val("true"), Val("false")} }

\* the ingestion process appends a page view while requests are served
IngestDuringRun ==
  /\ Len(rows) < MaxRaceRows
  /\ \E r \in RowPool : rows' = Append(rows, r)
  /\ resp' = NoResp
  /\ UNCHANGED <<underContract, tz, run, client>>

\* GET /api/stats/domain?type=all: the handler starts its five reads
BeginDomainAll ==
  /\ run = Idle
  /\ resp = NoResp
  /\ \E req \in RaceDomainRequests :
       run' = [op |-> "GET /api/stats/domain", req |-> req,
               got |-> [q \in DomainReads |-> Pending]]
  /\ UNCHANGED <<rows, underContract, tz, resp, client>>

\* one of the reads is served, in whatever order the row source takes them
DomainReadReturns ==
  /\ run.op = "GET /api/stats/domain"
  /\ \E q \in DomainReads :
       /\ run.got[q] = Pending
       /\ run' = [run EXCEPT !.got[q] = DomainRead(rows, q, run.req, IncludeBotsParam(run.req))]
  /\ UNCHANGED <<rows, underContract, tz, resp, client>>

\* Promise.all resolved: the handler builds the response
DomainAllResponds ==
  /\ run.op = "GET /api/stats/domain"
  /\ \A q \in DomainReads : run.got[q] # Pending
  /\ resp' = HttpResp("GET /api/stats/domain", run.req, "ok",
                      DomainAllResult(run.got["hits"], run.got["browsers"], run.got["os"],
                                      run.got["devices"], run.got["countries"]))
  /\ run' = Idle
  /\ UNCHANGED <<rows, underContract, tz, client>>

\* one stat of getDomainStats: the views counted in the first read, the
\* visitors a later read returned
DomainStat(data, k, visitors) ==
  [key |-> k,
   views |-> Len(SelectSeq(data, LAMBDA r : GlobalKey(r, "domain") = k)),
   visitors |-> visitors,
   percentage |-> Val(PercentageOfViews(Len(SelectSeq(data, LAMBDA r : GlobalKey(r, "domain") = k)),
                                        Len(data)))]

\* the response of getDomainStats
DomainStatsResp(range, data) ==
  [op |-> "getDomainStats", range |-> range, read |-> rows, outcome |-> "ok",
   status |-> "returned", data |-> data]

\* getDomainStats(startDate, endDate): the first read returns the rows of the
\* range; with no rows the function returns at once, else it starts one
\* getUniqueVisitors per domain
BeginDomainStats ==
  /\ run = Idle
  /\ resp = NoResp
  /\ \E range \in DateRanges :
       IF Len(GlobalData(rows, "domain", range[1], range[2])) = 0
         THEN /\ resp' = DomainStatsResp(range, <<>>)
              /\ run' = Idle
         ELSE /\ run' = [op |-> "getDomainStats", range |-> range,
                         data |-> GlobalData(rows, "domain", range[1], range[2]),
                         keys |-> GlobalKeys(GlobalData(rows, "domain", range[1], range[2]),
                                             "domain"),
                         visitors |-> [i \in 1..Len(GlobalKeys(GlobalData(rows, "domain",
                                                          range[1], range[2]), "domain"))
                                         |-> JsonNull]]
              /\ resp' = resp
  /\ UNCHANGED <<rows, underContract, tz, client>>

\* one getUniqueVisitors read is served
VisitorsReturn ==
  /\ run.op = "getDomainStats"
  /\ \E i \in 1..Len(run.keys) :
       /\ run.visitors[i] = JsonNull
       /\ run' = [run EXCEPT !.visitors[i] =
                    Val(getUniqueVisitors(rows, run.keys[i], run.range[1], run.range[2],
                                          "ok"))]
  /\ UNCHANGED <<rows, underContract, tz, resp, client>>

\* Promise.all resolved: the stats are sorted and returned
DomainStatsReturns ==
  /\ run.op = "getDomainStats"
  /\ \A i \in 1..Len(run.keys) : run.visitors[i] # JsonNull
  /\ resp' = DomainStatsResp(run.range,
               SortDesc([i \in 1..Len(run.keys) |->
                           DomainStat(run.data, run.keys[i], run.visitors[i].v)],
                        "views"))
  /\ run' = Idle
  /\ UNCHANGED <<rows, underContract, tz, client>>

NextRace ==
  \/ IngestDuringRun
  \/ Respond
  \/ BeginDomainAll
  \/ DomainReadReturns
  \/ DomainAllResponds
  \/ BeginDomainStats
  \/ VisitorsReturn
  \/ DomainStatsReturns

SpecRace == Init /\ [][NextRace]_vars

\* ------------------------------------------------ app/domain/page.tsx
\* The page keeps dateRange and includeBots; an effect on them fetches
\* /api/stats/domain?type=all and stores the response when it arrives.
MaxFetches == 3

\* the tables the page is served from: two page views of the domain
PageTables ==
  {<<r1, r2>> : r1 \in {r \in RowPool : r.domain_normalized = HostA},
                r2 \in {r \in RowPool : r.domain_normalized = HostA}}

\* `includeBots=${includeBots}`
BoolParam(b) == IF b THEN Val("true") ELSE Val("false")

\* the request the effect sends for a selection
PageRequest(dateRange, includeBots) ==
  DomainRequest(Val(dateRange[1]), Val(dateRange[2]), Val(HostA), Val("all"),
                BoolParam(includeBots))

\* useState([]) of hits, browsersData, osData, devicesData, countriesData
NoDomainData ==
  [hits |-> <<>>, browsers |-> <<>>, os |-> <<>>, devices |-> <<>>, countries |-> <<>>]

\* the effect body up to the fetch: setIsLoading(true) and one more request
\* in flight
FetchDomainStats(p, dateRange, includeBots) ==
  [p EXCEPT !.dateRange = dateRange, !.includeBots = includeBots, !.isLoading = TRUE,
            !.fetches = Append(p.fetches, PageRequest(dateRange, includeBots))]

\* s without its i-th element
RemoveAt(s, i) == SubSeq(s, 1, i - 1) \o SubSeq(s, i + 1, Len(s))

\* the page is opened: initial state, and the effect runs once
MountDomainPage ==
  /\ domainPage = Unmounted
  /\ \E dateRange \in DateRanges :
       domainPage' = FetchDomainStats([mounted |-> TRUE, dateRange |-> dateRange,
                                       includeBots |-> TRUE, isLoading |-> TRUE,
                                       data |-> NoDomainData, fetches |-> <<>>],
                                      dateRange, TRUE)
  /\ UNCHANGED <<rows, underContract, tz, resp, run, hitsTable, statsTable>>

\* handleDateRangeChange with another range: the effect runs again
ChangeDateRange ==
  /\ domainPage.mounted
  /\ Len(domainPage.fetches) < MaxFetches
  /\ \E dateRange \in DateRanges \ {domainPage.dateRange} :
       domainPage' = FetchDomainStats(domainPage, dateRange, domainPage.includeBots)
  /\ UNCHANGED <<rows, underContract, tz, resp, run, hitsTable, statsTable>>

\* handleIncludeBotsChange with the other value: the effect runs again
ChangeIncludeBots ==
  /\ domainPage.mounted
  /\ Len(domainPage.fetches) < MaxFetches
  /\ domainPage' = FetchDomainStats(domainPage, domainPage.dateRange, ~domainPage.includeBots)
  /\ UNCHANGED <<rows, underContract, tz, resp, run, hitsTable, statsTable>>

\* one of the fetches in flight is answered (with 200): its data is stored,
\* and finally setIsLoading(false)
FetchCompletes ==
  /\ domainPage.mounted
  /\ \E i \in 1..Len(domainPage.fetches) :
       domainPage' = [domainPage EXCEPT
                        !.data = DomainRoute(rows, domainPage.fetches[i], "ok").body.data,
                        !.isLoading = FALSE,
                        !.fetches = RemoveAt(domainPage.fetches, i)]
  /\ UNCHANGED <<rows, underContract, tz, resp, run, hitsTable, statsTable>>

InitPage ==
  /\ rows \in PageTables
  /\ underContract = {}
  /\ tz = 0
  /\ resp = NoResp
  /\ run = Idle
  /\ NoClient

NextPage ==
  \/ MountDomainPage
  \/ ChangeDateRange
  \/ ChangeIncludeBots
  \/ FetchCompletes

SpecPage == InitPage /\ [][NextPage]_vars

\* --------------------- app/domain/page.tsx, the pageviews table and its
\* PaginatedTableFooter.  Only the number of hits matters to the footer.
MaxHits == 130

\* APP_CONFIG.TABLE_PAGINATION.DETAIL_HITS
INITIAL_HITS_TO_SHOW == 20
HITS_PER_LOAD == 100

\* x < y ? x : y
Min(x, y) == IF x < y THEN x ELSE y

\* the footer's hasMoreData
HasMoreData(itemsToShow, totalItems) == itemsToShow < totalItems

\* the footer is rendered at all
FooterRendered(itemsToShow, totalItems, initialItemsToShow, showAll) ==
  \/ HasMoreData(itemsToShow, totalItems)
  \/ (itemsToShow > initialItemsToShow /\ ~showAll)

\* the More and Show All buttons are rendered
MoreOffered(itemsToShow, totalItems, initialItemsToShow, showAll) ==
  /\ FooterRendered(itemsToShow, totalItems, initialItemsToShow, showAll)
  /\ HasMoreData(itemsToShow, totalItems)

\* the Show Less button is rendered
ShowLessOffered(itemsToShow, totalItems, initialItemsToShow, showAll) ==
  /\ FooterRendered(itemsToShow, totalItems, initialItemsToShow, showAll)
  /\ itemsToShow >= totalItems
  /\ totalItems > initialItemsToShow
  /\ ~showAll

\* (showAllHits ? hits : hits.slice(0, hitsToShow)).length
HitsDisplayed(t) == IF t.showAllHits THEN t.hits ELSE Min(t.hitsToShow, t.hits)

\* a response brings n hits: setHits, and the effect on [hits] resets the table
HitsChange ==
  /\ \E n \in 0..MaxHits :
       hitsTable' = [mounted |-> TRUE, hits |-> n, showAllHits |-> FALSE,
                     hitsToShow |-> INITIAL_HITS_TO_SHOW]
  /\ UNCHANGED <<rows, underContract, tz, resp, run, domainPage, statsTable>>

\* onLoadMore
HitsLoadMore ==
  /\ hitsTable.mounted
  /\ MoreOffered(hitsTable.hitsToShow, hitsTable.hits, INITIAL_HITS_TO_SHOW,
                 hitsTable.showAllHits)
  /\ hitsTable' = [hitsTable EXCEPT
                     !.hitsToShow = Min(hitsTable.hitsToShow + HITS_PER_LOAD, hitsTable.hits)]
  /\ UNCHANGED <<rows, underContract, tz, resp, run, domainPage, statsTable>>

\* onShowAll
HitsShowAll ==
  /\ hitsTable.mounted
  /\ MoreOffered(hitsTable.hitsToShow, hitsTable.hits, INITIAL_HITS_TO_SHOW,
                 hitsTable.showAllHits)
  /\ hitsTable' = [hitsTable EXCEPT !.showAllHits = TRUE, !.hitsToShow = hitsTable.hits]
  /\ UNCHANGED <<rows, underContract, tz, resp, run, domainPage, statsTable>>

\* onShowLess
HitsShowLess ==
  /\ hitsTable.mounted
  /\ ShowLessOffered(hitsTable.hitsToShow, hitsTable.hits, INITIAL_HITS_TO_SHOW,
                     hitsTable.showAllHits)
  /\ hitsTable' = [hitsTable EXCEPT !.showAllHits = FALSE,
                                    !.hitsToShow = INITIAL_HITS_TO_SHOW]
  /\ UNCHANGED <<rows, underContract, tz, resp, run, domainPage, statsTable>>

NextHits ==
  \/ HitsChange
  \/ HitsLoadMore
  \/ HitsShowAll
  \/ HitsShowLess

\* no page view matters to the table; nothing is mounted yet
InitClient ==
  /\ rows = <<>>
  /\ underContract = {}
  /\ tz = 0
  /\ resp = NoResp
  /\ run = Idle
  /\ NoClient

SpecHits == InitClient /\ [][NextHits]_vars

\* ------------------------------------- components/TableWithPercentage.tsx
MaxItems == 4

\* the data prop: up to MaxItems stats, told apart by their name
TableRows(n) == [1..n -> 0..2]

TableData(visitors) ==
  [i \in 1..Len(visitors) |-> [key |-> i, visitors |-> visitors[i]]]

\* [...data].sort((a, b) => b.visitors - a.visitors)
SortedData(t) == SortDesc(t.data, "visitors")

\* sortedData.slice(0, itemsToShow)
DisplayedData(t) == SubSeq(SortedData(t), 1, Min(t.itemsToShow, Len(t.data)))

\* handleLoadMore without the cap at sortedData.length
LoadMoreItemsUncapped(prev, itemsPerLoad, n) == prev + itemsPerLoad

\* Math.min(prev + itemsPerLoad, sortedData.length)
LoadMoreItems(prev, itemsPerLoad, n) == Min(prev + itemsPerLoad, n)

\* the component is rendered for the first time with its props:
\* useState(showAllByDefault ? data.length : initialItemsToShow)
MountTable ==
  /\ statsTable = Unmounted
  /\ \E n \in 0..MaxItems :
       \E visitors \in TableRows(n), initialItemsToShow \in 1..2, itemsPerLoad \in 1..2,
          showAllByDefault \in BOOLEAN :
         statsTable' = [mounted |-> TRUE, data |-> TableData(visitors),
                        initialItemsToShow |-> initialItemsToShow,
                        itemsPerLoad |-> itemsPerLoad,
                        showAllByDefault |-> showAllByDefault,
                        itemsToShow |-> IF showAllByDefault THEN n ELSE initialItemsToShow]
  /\ UNCHANGED <<rows, underContract, tz, resp, run, domainPage, hitsTable>>

\* the page stores another response while the table is on screen: the data
\* prop changes, the itemsToShow state is kept
TableDataChange ==
  /\ statsTable.mounted
  /\ \E n \in 0..MaxItems :
       \E visitors \in TableRows(n) :
         statsTable' = [statsTable EXCEPT !.data = TableData(visitors)]
  /\ UNCHANGED <<rows, underContract, tz, resp, run, domainPage, hitsTable>>

\* if (!data || data.length === 0): the table and its footer are not rendered
TableRendered(t) == t.mounted /\ Len(t.data) > 0

\* handleLoadMore, from the More button
TableLoadMore ==
  /\ TableRendered(statsTable)
  /\ MoreOffered(statsTable.itemsToShow, Len(statsTable.data),
                 statsTable.initialItemsToShow, statsTable.showAllByDefault)
  /\ statsTable' = [statsTable EXCEPT
                      !.itemsToShow = LoadMoreItems(statsTable.itemsToShow,
                                                    statsTable.itemsPerLoad,
                                                    Len(statsTable.data))]
  /\ UNCHANGED <<rows, underContract, tz, resp, run, domainPage, hitsTable>>

\* handleShowAll, from the Show All button
TableShowAll ==
  /\ TableRendered(statsTable)
  /\ MoreOffered(statsTable.itemsToShow, Len(statsTable.data),
                 statsTable.initialItemsToShow, statsTable.showAllByDefault)
  /\ statsTable' = [statsTable EXCEPT !.itemsToShow = Len(statsTable.data)]
  /\ UNCHANGED <<rows, underContract, tz, resp, run, domainPage, hitsTable>>

\* handleShowLess, from the Show Less button
TableShowLess ==
  /\ TableRendered(statsTable)
  /\ ShowLessOffered(statsTable.itemsToShow, Len(statsTable.data),
                     statsTable.initialItemsToShow, statsTable.showAllByDefault)
  /\ statsTable' = [statsTable EXCEPT !.itemsToShow = statsTable.initialItemsToShow]
  /\ UNCHANGED <<rows, underContract, tz, resp, run, domainPage, hitsTable>>

NextTable ==
  \/ MountTable
  \/ TableDataChange
  \/ TableLoadMore
  \/ TableShowAll
  \/ TableShowLess

SpecTable == InitClient /\ [][NextTable]_vars

\* ------------------------------------------------------------- properties
\* what the properties read off a response
SectionOf == [domain |-> "domains", referrer |-> "referrers", browser |-> "browsers",
              os |-> "os", device |-> "devices", country |-> "countries"]

\* a per-domain function returned the aggregation of rows it was given
PerDomainAnswered ==
  resp.op = "statsForDomain" /\ resp.outcome = "ok" /\ resp.status = "returned"

\* the stored procedure ran and its bundle reached the caller
ProcedureAnswered ==
  /\ resp.op \in {"getDashboardData", "GET /api/stats"}
  /\ resp.outcome = "ok"
  /\ ~NegativeLimit(resp.params)

Bundle == IF resp.op = "getDashboardData" THEN resp.data.v ELSE resp.body.data

Entries(s) == {s[i] : i \in 1..Len(s)}

SumViews(s) == SumSeq(Column(s, "views"))

\* the rows a per-domain response is about: date, domain and bot filters applied
PerDomainFiltered ==
  BotFilter(DomainQuery(resp.read, resp.domain, resp.range[1], resp.range[2]),
            resp.includeBots)

\* the rows of the table that pass the date and domain filters of the procedure
DashboardFiltered ==
  SelectSeq(resp.read, LAMBDA r : CommonWhere(r, resp.params.start_date, resp.params.end_date,
                                              resp.params.domains, underContract))

\* the rows the referrers section is about: referrer present, self-referrals
\* dropped when asked
ReferrerFiltered ==
  SectionRows(resp.read, "referrer", resp.params, underContract)

\* the partitions of a section before the limit
SectionPartitions(dim) == SectionCounts(resp.read, dim, resp.params, underContract)

\* the section was not cut by the threshold or the limit
Untruncated(dim) ==
  /\ resp.params.min_views <= 1
  /\ Len(Bundle[SectionOf[dim]]) = Len(SectionPartitions(dim))

\* C1: for every dimension grouping and every non-empty filtered row set, the
\* views of the returned partitions add up to the number of filtered rows.
\* Read in the claim's favour: sections cut by minViews or by the limit are
\* left aside, and the referrers section is compared with the rows that have a
\* referrer and are not excluded as self-referrals.
C1_ViewsAddUp ==
  /\ PerDomainAnswered /\ Len(PerDomainFiltered) > 0
       => SumViews(resp.data) = Len(PerDomainFiltered)
  /\ ProcedureAnswered
       => \A dim \in Dims :
            LET filtered == IF dim = "referrer" THEN ReferrerFiltered ELSE DashboardFiltered
            IN  (Untruncated(dim) /\ Len(filtered) > 0)
                  => SumViews(Bundle[SectionOf[dim]]) = Len(filtered)

\* C2: every returned stat has a percentage that is a number between 0 and 100.
C2_PercentageInRange ==
  /\ PerDomainAnswered
       => \A e \in Entries(resp.data) :
            e.percentage # JsonNull /\ e.percentage.v >= 0 /\ e.percentage.v <= 1000
  /\ ProcedureAnswered
       => \A dim \in Dims : \A e \in Entries(Bundle[SectionOf[dim]]) :
            e.percentage # JsonNull /\ e.percentage.v >= 0 /\ e.percentage.v <= 1000

\* C3: when the divisor of the percentages is zero, every returned stat has
\* percentage 0 and the call returns normally.
C3_ZeroDivisorGivesZero ==
  /\ (resp.op = "statsForDomain" /\ resp.outcome = "ok" /\ resp.totalVisitors = 0)
       => /\ resp.status = "returned"
          /\ \A e \in Entries(resp.data) : e.percentage = Val(0)
  /\ ProcedureAnswered
       => \A dim \in Dims :
            TotalVisitorsSQL(SectionPartitions(dim)) = 0
              => \A e \in Entries(Bundle[SectionOf[dim]]) : e.percentage = Val(0)

\* C4: the divisor of the percentages is the number of distinct ip values of
\* the whole filtered row set.
C4_DivisorIsDistinctIps ==
  /\ (PerDomainAnswered /\ Len(PerDomainFiltered) > 0)
       => resp.totalVisitors = Cardinality({PerDomainFiltered[i].ip :
                                              i \in 1..Len(PerDomainFiltered)})
  /\ ProcedureAnswered
       => \A dim \in Dims :
            Len(SectionPartitions(dim)) > 0
              => TotalVisitorsSQL(SectionPartitions(dim))
                   = CountDistinctIp(SectionRows(resp.read, dim, resp.params, underContract))

\* visitors / totalVisitors * 100 rounded to one decimal, in tenths
RoundedToOneDecimal(visitors, totalVisitors) ==
  (2000 * visitors + totalVisitors) \div (2 * totalVisitors)

\* C5: every percentage of a per-dimension aggregation is
\* visitors / totalVisitors * 100 rounded to one decimal place.
C5_RoundedToOneDecimal ==
  /\ PerDomainAnswered
       => \A e \in Entries(resp.data) :
            e.percentage = Val(RoundedToOneDecimal(e.visitors, resp.totalVisitors))
  /\ ProcedureAnswered
       => \A dim \in Dims :
            TotalVisitorsSQL(SectionPartitions(dim)) > 0
              => \A e \in Entries(Bundle[SectionOf[dim]]) :
                   e.percentage = Val(RoundedToOneDecimal(e.visitors,
                                        TotalVisitorsSQL(SectionPartitions(dim))))


\* C6: the same request on the same table gives the same sequence of stats,
\* in the same order.
C6_SameOutputTwice == [][RepeatRequest => resp' = resp]_vars

\* s ends with suffix
EndsWith(s, suffix) ==
  /\ Len(s) >= Len(suffix)
  /\ SubSeq(s, Len(s) - Len(suffix) + 1, Len(s)) = suffix

\* the referrer equals the page's domain, or ends with "." + domain, or the
\* domain ends with "." + referrer
IsSelfReferral(r) ==
  \/ r.referrer_normalized = r.domain_normalized
  \/ EndsWith(r.referrer_normalized, <<".">> \o r.domain_normalized)
  \/ EndsWith(r.domain_normalized, <<".">> \o r.referrer_normalized)

\* the number of rows of s that fall under key k in the section of dim
RowsUnderKey(s, dim, k) ==
  Cardinality({i \in 1..Len(s) : SectionKey(s[i], dim, resp.params) = k})

\* C7: in the referrers section, with excludeSelfReferrals = true no
\* self-referral row contributes; with false every row that passes the date and
\* domain filters and has a referrer is counted.  The views of each returned
\* referrer are the contributing rows under its key.
C7_SelfReferralExclusion ==
  ProcedureAnswered =>
    /\ resp.params.exclude_self_referrals
         => \A i \in 1..Len(ReferrerFiltered) : ~IsSelfReferral(ReferrerFiltered[i])
    /\ ~resp.params.exclude_self_referrals
         => ReferrerFiltered
              = SelectSeq(DashboardFiltered, LAMBDA r : r.referrer_normalized # NULLHOST)
    /\ \A e \in Entries(Bundle.referrers) :
         e.views = RowsUnderKey(ReferrerFiltered, "referrer", e.key)

\* a self-referral row passed the date and domain filters, was left out, and
\* another referrer was reported
C7_Witness ==
  /\ ProcedureAnswered
  /\ resp.params.exclude_self_referrals
  /\ \E i \in 1..Len(DashboardFiltered) :
       /\ DashboardFiltered[i].referrer_normalized # NULLHOST
       /\ IsSelfReferral(DashboardFiltered[i])
  /\ Len(Bundle.referrers) > 0

\* C8: in every section, no partition with fewer than minViews views is
\* returned.
C8_MinViewsThreshold ==
  ProcedureAnswered =>
    \A dim \in Dims : \A e \in Entries(Bundle[SectionOf[dim]]) :
      /\ e.views >= resp.params.min_views
      /\ RowsUnderKey(SectionRows(resp.read, dim, resp.params, underContract), dim, e.key)
           >= resp.params.min_views

\* with minViews = 2 a section holds a partition of one view, which is left
\* out, next to one that is returned
C8_Witness ==
  /\ ProcedureAnswered
  /\ resp.params.min_views = 2
  /\ \E dim \in Dims :
       LET fv == SectionRows(resp.read, dim, resp.params, underContract)
       IN  /\ \E i \in 1..Len(fv) :
                RowsUnderKey(fv, dim, SectionKey(fv[i], dim, resp.params)) = 1
           /\ Len(Bundle[SectionOf[dim]]) > 0

\* the caller received a bundle
BundleReturned ==
  \/ resp.op = "getDashboardData" /\ resp.status = "returned"
  \/ resp.op = "GET /api/stats" /\ resp.http = 200

\* maxResultsPerSection as the caller set it: the parsed maxResults parameter,
\* 200 on the route and 50 in getDashboardData when there is none
RequestedLimit ==
  IF resp.op = "GET /api/stats" THEN RouteMaxResults(resp.maxResults)
  ELSE Nullish(resp.options.maxResultsPerSection, Val(DefaultMaxResults))

\* C9: every section holds at most maxResultsPerSection entries, whatever the
\* maxResults parameter is, and no partition left out has more views than one
\* that is returned.  (An empty section is within any limit.)
C9_AtMostMaxResults ==
  BundleReturned =>
    \A dim \in Dims :
      LET section == Bundle[SectionOf[dim]]
      IN  /\ Len(section) > 0
               => RequestedLimit # NaN /\ Len(section) <= RequestedLimit.v
          /\ ProcedureAnswered
               => \A c \in Entries(SectionPartitions(dim)) :
                    (\A e \in Entries(section) : e.key # c.key)
                      => \A e \in Entries(section) : c.views <= e.views

\* C10: when the row source fails during the composite read, getDashboardData
\* returns the bundle of six empty sections and the route answers 200 with it,
\* whether the client reports an error value or the call rejects.
C10_FaultGivesEmptyBundle ==
  /\ (resp.op = "getDashboardData" /\ resp.outcome # "ok")
       => resp.status = "returned" /\ resp.data = Val(EmptyBundle)
  /\ (resp.op = "GET /api/stats" /\ resp.outcome # "ok")
       => resp.http = 200 /\ resp.body = [data |-> EmptyBundle]

\* the routes that serve one dimension, one domain or one referrer
SingleDimensionOps ==
  {"GET /api/stats/:type", "GET /api/stats/domain",
   "GET /api/stats/domain (default bots)", "GET /api/stats/referrer"}

\* the response carries an { error } body
ErrorBody == "error" \in DOMAIN resp.body

\* C11: a fault of the row source while a single-dimension request is served
\* (a read was issued and it failed) gives HTTP 500 with an { error } body.
C11_SingleDimensionFaultGives500 ==
  (resp.op \in SingleDimensionOps /\ resp.outcome # "ok" /\ resp.reads > 0)
    => (resp.http = 500 /\ ErrorBody)

\* the request lacks a parameter its endpoint requires, or names no known type
LacksParameter ==
  \/ Falsy(resp.req.startDate)
  \/ Falsy(resp.req.endDate)
  \/ /\ resp.op = "GET /api/stats/:type"
     /\ (Falsy(resp.req.type) \/ resp.req.type.v \notin SingleTypes \cup {"all"})
  \/ /\ resp.op \in {"GET /api/stats/domain", "GET /api/stats/domain (default bots)"}
     /\ Falsy(resp.req.domain)
  \/ /\ resp.op = "GET /api/stats/referrer"
     /\ Falsy(resp.req.referrerDomain)

\* C12: a request that lacks a required parameter, or whose type is not one
\* of the seven recognised values, is answered 400 with an { error } body and
\* no read of the row source is issued for it.
C12_BadRequestGives400 ==
  (resp.op \in SingleDimensionOps /\ LacksParameter)
    => (resp.http = 400 /\ ErrorBody /\ resp.reads = 0)

\* a request with an unknown type was refused while the table held rows, and
\* the row source would have failed the read
C12_Witness ==
  /\ resp.op = "GET /api/stats/:type"
  /\ resp.req.type = Val("visitors")
  /\ Len(resp.read) > 0
  /\ resp.outcome = "reject"
  /\ resp.http = 400

\* the rows of the table read (by index) on the domain and in the date range
\* of a per-domain call
InDomainAndRange ==
  {i \in 1..Len(resp.read) :
     /\ resp.read[i].domain_normalized = resp.domain
     /\ resp.read[i].timestamp >= StartStamp(resp.range[1])
     /\ resp.read[i].timestamp <= EndStamp(resp.range[2])}

\* those of them that are not Bot rows
NonBotRows == {i \in InDomainAndRange : resp.read[i].browser_normalized # "Bot"}

\* the non-Bot rows under key k of the dimension of the call
NonBotUnder(k) == {i \in NonBotRows : DimKey(resp.read[i], resp.dim) = k}

\* a Bot row and exactly one other row, a Chrome one, are on the domain and in
\* the range
BotAndChrome ==
  /\ InDomainAndRange # NonBotRows
  /\ Cardinality(NonBotRows) = 1
  /\ \A i \in NonBotRows : resp.read[i].browser_normalized = "Chrome"

\* C13: with includeBots = false the per-domain aggregations count no Bot
\* row: no "Bot" key, views and visitors of every partition and totalVisitors
\* are those of the non-Bot rows, and a Bot row next to one Chrome row gives
\* exactly [{Chrome, views 1, visitors 1, percentage 100}].
C13_BotsDiscarded ==
  /\ (PerDomainAnswered /\ ~resp.includeBots)
       => /\ \A e \in Entries(resp.data) :
               /\ e.key # "Bot"
               /\ e.views = Cardinality(NonBotUnder(e.key))
               /\ e.visitors = Cardinality({resp.read[i].ip : i \in NonBotUnder(e.key)})
          /\ SumViews(resp.data) = Cardinality(NonBotRows)
          /\ resp.totalVisitors = Cardinality({resp.read[i].ip : i \in NonBotRows})
          /\ (resp.dim = "browser" /\ BotAndChrome)
               => resp.data = <<[key |-> "Chrome", views |-> 1, visitors |-> 1,
                                 percentage |-> Val(1000)]>>
  /\ (/\ resp.op = "GET /api/stats/domain"
      /\ resp.outcome = "ok"
      /\ resp.http = 200
      /\ resp.req.type = Val("all")
      /\ resp.req.includeBots = Val("false"))
       => \A e \in Entries(resp.body.data.browsers) \cup Entries(resp.body.data.os)
                     \cup Entries(resp.body.data.devices) : e.key # "Bot"

\* getBrowserStatsForDomain with includeBots = false met a Bot row and a
\* Chrome row and returned the Chrome partition alone
C13_Witness ==
  /\ PerDomainAnswered
  /\ ~resp.includeBots
  /\ resp.dim = "browser"
  /\ BotAndChrome
  /\ Len(resp.data) = 1

\* the rows (by index) on the domain and in the date range of a request to
\* the domain endpoint
DomainRequestRows ==
  {i \in 1..Len(resp.read) :
     /\ resp.read[i].domain_normalized = resp.req.domain.v
     /\ resp.read[i].timestamp >= StartStamp(resp.req.startDate.v)
     /\ resp.read[i].timestamp <= EndStamp(resp.req.endDate.v)}

\* the domain endpoint answered a well-formed request
DomainAnswered ==
  /\ resp.op \in {"GET /api/stats/domain", "GET /api/stats/domain (default bots)"}
  /\ resp.outcome = "ok"
  /\ resp.http = 200

\* C14: a request to the domain endpoint without an includeBots parameter is
\* served as includeBots = true: every row on the domain and in the range,
\* Bot rows included, is a hit and is counted in the sections.
C14_AbsentIncludeBotsMeansTrue ==
  (DomainAnswered /\ resp.req.includeBots = JsonNull /\ resp.req.type = Val("all"))
    => /\ Len(resp.body.data.hits) = Cardinality(DomainRequestRows)
       /\ SumViews(resp.body.data.browsers) = Cardinality(DomainRequestRows)
       /\ SumViews(resp.body.data.os) = Cardinality(DomainRequestRows)
       /\ SumViews(resp.body.data.devices) = Cardinality(DomainRequestRows)
       /\ SumViews(resp.body.data.countries) = Cardinality(DomainRequestRows)

\* the rows of the table read (by index) stamped within
\* [startDate 00:00:00, endDate 23:59:59]
StampedWithin(startDate, endDate) ==
  {i \in 1..Len(resp.read) :
     /\ resp.read[i].timestamp >= startDate * Day
     /\ resp.read[i].timestamp <= endDate * Day + EndOfDay}

\* C15: on every endpoint the filtered set is the rows stamped within
\* [startDate 00:00:00, endDate 23:59:59], also when startDate differs from
\* endDate.  Read off the responses: the views of the domains section of
\* type=all (default limit, domains under contract left aside), the views of
\* type=domains, the hits of the domain endpoint with bots included, and the
\* views of the referrer endpoint count exactly those rows.
C15_InclusiveDateRange ==
  /\ (/\ resp.op = "GET /api/stats"
      /\ resp.outcome = "ok"
      /\ resp.maxResults = AbsentParam
      /\ resp.http = 200)
       => SumViews(resp.body.data.domains)
            = Cardinality({i \in StampedWithin(resp.range[1], resp.range[2]) :
                             resp.read[i].domain_normalized \notin underContract})
  /\ (/\ resp.op = "GET /api/stats/:type"
      /\ resp.outcome = "ok"
      /\ resp.http = 200
      /\ resp.req.type = Val("domains"))
       => SumViews(resp.body.data)
            = Cardinality(StampedWithin(resp.req.startDate.v, resp.req.endDate.v))
  /\ (/\ DomainAnswered
      /\ resp.req.type = Val("all")
      /\ (resp.req.includeBots = Val("true")
            \/ resp.op = "GET /api/stats/domain (default bots)"))
       => Len(resp.body.data.hits)
            = Cardinality({i \in StampedWithin(resp.req.startDate.v, resp.req.endDate.v) :
                             resp.read[i].domain_normalized = resp.req.domain.v})
  /\ (/\ resp.op = "GET /api/stats/referrer"
      /\ resp.outcome = "ok"
      /\ resp.http = 200)
       => SumViews(resp.body.data)
            = Cardinality({i \in StampedWithin(resp.req.startDate.v, resp.req.endDate.v) :
                             ILike(resp.read[i].referrer_normalized,
                                   <<"%">> \o resp.req.referrerDomain.v \o <<"%">>)})

\* the referrer endpoint answered a well-formed request
ReferrerAnswered ==
  resp.op = "GET /api/stats/referrer" /\ resp.outcome = "ok" /\ resp.http = 200

\* the rows the request matched
Matched ==
  ReferrerQuery(resp.read, resp.req.referrerDomain.v, resp.req.startDate.v,
                resp.req.endDate.v)

\* the matched rows (by index) that have the pair of pages of entry e
WithPair(e) ==
  {i \in 1..Len(Matched) : /\ ReferrerPage(Matched[i]) = e.referrerPage
                            /\ TargetPage(Matched[i]) = e.targetPage}

\* C16: each entry of the referrer-pair aggregation has views = the matched
\* rows with its (referrerPage, targetPage), visitors = their distinct ips,
\* percentage = views / matched rows * 100 rounded to one decimal; entries are
\* in order of non-increasing views; two equal rows give one entry with
\* views 2, visitors 1, percentage 100.
C16_ReferrerPairCounts ==
  ReferrerAnswered =>
    /\ \A e \in Entries(resp.body.data) :
         /\ e.views = Cardinality(WithPair(e))
         /\ e.visitors = Cardinality({Matched[i].ip : i \in WithPair(e)})
         /\ e.percentage = Val(RoundedToOneDecimal(e.views, Len(Matched)))
    /\ \A i \in 1..(Len(resp.body.data) - 1) :
         resp.body.data[i].views >= resp.body.data[i + 1].views
    /\ (Len(Matched) = 2 /\ Matched[1] = Matched[2])
         => resp.body.data = <<[referrerPage |-> ReferrerPage(Matched[1]),
                                targetPage |-> TargetPage(Matched[1]),
                                views |-> 2, visitors |-> 1, percentage |-> Val(1000)]>>

\* the pairs of pages of the matched rows
MatchedPairs ==
  {<<ReferrerPage(Matched[i]), TargetPage(Matched[i])>> : i \in 1..Len(Matched)}

\* C17: the referrer-pair aggregation groups by the exact pair, whatever
\* characters referrer and path contain: there is one entry per pair of pages
\* of the matched rows, every matched row's pair has its entry, and a row
\* without a referrer is under "Direct / None".
C17_GroupsByExactPair ==
  ReferrerAnswered =>
    /\ Len(resp.body.data) = Cardinality(MatchedPairs)
    /\ \A pair \in MatchedPairs :
         \E e \in Entries(resp.body.data) :
           e.referrerPage = pair[1] /\ e.targetPage = pair[2]
    /\ \A i \in 1..Len(Matched) :
         Matched[i].referrer = NULLHOST
           => \E e \in Entries(resp.body.data) :
                e.referrerPage = DirectNone /\ e.targetPage = TargetPage(Matched[i])

\* the dimension a single type of /api/stats groups by
TypeDim ==
  [domains |-> "domain", referrers |-> "referrer", browsers |-> "browser",
   os |-> "os", devices |-> "device", countries |-> "country"]

\* the rows (by index) a single-type request is about: in the range, with a
\* value in the column of the dimension
SingleTypeRows ==
  {i \in StampedWithin(resp.req.startDate.v, resp.req.endDate.v) :
     NotNullFilter(resp.read[i], TypeDim[resp.req.type.v])}

\* the five parts of the answer of the domain endpoint to type=all
DomainParts ==
  {resp.body.data.hits, resp.body.data.browsers, resp.body.data.os,
   resp.body.data.devices, resp.body.data.countries}

\* C18: an empty filtered row set gives an empty result, with HTTP 200 and no
\* exception, for every dimension and every endpoint, also when the bot filter
\* removed every row.
C18_EmptyInEmptyOut ==
  /\ (/\ resp.op = "statsForDomain"
      /\ resp.outcome = "ok"
      /\ (IF resp.includeBots THEN InDomainAndRange ELSE NonBotRows) = {})
       => (resp.status = "returned" /\ resp.data = <<>>)
  /\ (resp.op \in {"getDashboardData", "GET /api/stats"} /\ resp.outcome = "ok")
       => /\ BundleReturned
          /\ \A dim \in Dims :
               Len(SectionRows(resp.read, dim, resp.params, underContract)) = 0
                 => Bundle[SectionOf[dim]] = <<>>
  /\ (/\ resp.op = "GET /api/stats/:type"
      /\ resp.outcome = "ok"
      /\ ~LacksParameter
      /\ SingleTypeRows = {})
       => (resp.http = 200 /\ resp.body = [data |-> <<>>])
  /\ (/\ resp.op \in {"GET /api/stats/domain", "GET /api/stats/domain (default bots)"}
      /\ resp.outcome = "ok"
      /\ ~LacksParameter
      /\ \/ DomainRequestRows = {}
         \/ /\ resp.op = "GET /api/stats/domain"
            /\ resp.req.includeBots = Val("false")
            /\ \A i \in DomainRequestRows : resp.read[i].browser_normalized = "Bot")
       => /\ resp.http = 200
          /\ IF resp.req.type = Val("all")
               THEN DomainParts = {<<>>}
               ELSE resp.body = [data |-> <<>>]
  /\ (/\ resp.op = "GET /api/stats/referrer"
      /\ resp.outcome = "ok"
      /\ ~LacksParameter
      /\ Len(Matched) = 0)
       => (resp.http = 200 /\ resp.body = [data |-> <<>>])

\* a per-domain function with includeBots = false read rows of the domain,
\* all of them Bot rows, and returned the empty sequence
C18_Witness ==
  /\ resp.op = "statsForDomain"
  /\ resp.outcome = "ok"
  /\ ~resp.includeBots
  /\ InDomainAndRange # {}
  /\ NonBotRows = {}
  /\ resp.status = "returned"
  /\ resp.data = <<>>

\* the column of a row that carries the value of a classification dimension
DimColumn ==
  [browser |-> "browser_normalized", os |-> "os_normalized",
   device |-> "device_normalized", country |-> "country"]

\* the one partition the claim expects when no row has the dimension value
SinglePlaceholder(s, placeholder, n) ==
  /\ Len(s) = 1
  /\ s[1].key = placeholder
  /\ s[1].views = n
  /\ s[1].percentage = Val(1000)

\* C19: when the filtered row set is not empty and every row lacks the
\* dimension value, the aggregation returns exactly one partition, keyed
\* "Other" in the dashboard procedure and "Unknown" in the per-domain
\* functions, with views = the row count and percentage 100.  Read in the
\* claim's favour: in the procedure the case is taken with a limit other than
\* 0, at least minViews rows, and some row that has an ip.
C19_AllMissingGivesPlaceholder ==
  /\ (/\ PerDomainAnswered
      /\ resp.includeBots
      /\ InDomainAndRange # {}
      /\ \A i \in InDomainAndRange : resp.read[i][DimColumn[resp.dim]] = NULL)
       => SinglePlaceholder(resp.data, "Unknown", Cardinality(InDomainAndRange))
  /\ ProcedureAnswered
       => \A dim \in DOMAIN DimColumn :
            (/\ Len(DashboardFiltered) > 0
             /\ resp.params.max_results_per_section # Val(0)
             /\ Len(DashboardFiltered) >= resp.params.min_views
             /\ \E i \in 1..Len(DashboardFiltered) : DashboardFiltered[i].ip # NULL
             /\ \A i \in 1..Len(DashboardFiltered) :
                  DashboardFiltered[i][DimColumn[dim]] = NULL)
              => SinglePlaceholder(Bundle[SectionOf[dim]], "Other", Len(DashboardFiltered))

\* s is in order of non-increasing field
NonIncreasing(s, field) ==
  \A i \in 1..(Len(s) - 1) : s[i][field] >= s[i + 1][field]

\* the sections of the bundle that aggregate a classification dimension
ClassificationSections == {"browsers", "os", "devices", "countries"}

\* C20 as claimed: every browser, OS, device and country aggregation, of the
\* per-domain functions and of the dashboard bundle, is in order of
\* non-increasing visitors.
C20_OrderedByVisitors ==
  /\ PerDomainAnswered => NonIncreasing(resp.data, "visitors")
  /\ ProcedureAnswered
       => \A sec \in ClassificationSections : NonIncreasing(Bundle[sec], "visitors")

\* C20 amended: the per-domain functions return their stats in order of
\* non-increasing visitors, the sections of the dashboard bundle in order of
\* non-increasing views.
C20_OrderedByCallSite ==
  /\ PerDomainAnswered => NonIncreasing(resp.data, "visitors")
  /\ ProcedureAnswered
       => \A sec \in ClassificationSections : NonIncreasing(Bundle[sec], "views")

\* a section of the bundle holds a partition with more views and fewer
\* visitors than the one after it
C20_Witness ==
  /\ ProcedureAnswered
  /\ \E sec \in ClassificationSections :
       \E i \in 1..(Len(Bundle[sec]) - 1) :
         /\ Bundle[sec][i].views > Bundle[sec][i + 1].views
         /\ Bundle[sec][i].visitors < Bundle[sec][i + 1].visitors

\* the positions of the dots of a host
DotsIn(s) == {i \in 1..Len(s) : s[i] = "."}

\* the rightmost two labels of a host, joined by a dot
LastTwoLabels(s) ==
  IF Cardinality(DotsIn(s)) < 2 THEN s
  ELSE LET last == CHOOSE i \in DotsIn(s) : \A j \in DotsIn(s) : j <= i
           d == CHOOSE i \in DotsIn(s) \ {last} : \A j \in DotsIn(s) \ {last} : j <= i
       IN  SubSeq(s, d + 1, Len(s))

\* the key the referrers section is said to give a row
ClaimedReferrerKey(r) ==
  IF resp.params.group_referrers_by_domain THEN LastTwoLabels(r.referrer_normalized)
  ELSE r.referrer_normalized

\* C21: with groupReferrersByDomain = true two referrer hosts are in the same
\* partition of the referrers section exactly when their rightmost two labels
\* are equal, and the partition key is those two labels joined by a dot; with
\* false the key is the normalized referrer as it is.  Sections cut by
\* minViews or by the limit are left aside.
C21_ReferrersGroupedByRootDomain ==
  (ProcedureAnswered /\ Untruncated("referrer"))
    => /\ {e.key : e \in Entries(Bundle.referrers)}
            = {ClaimedReferrerKey(ReferrerFiltered[i]) : i \in 1..Len(ReferrerFiltered)}
       /\ \A e \in Entries(Bundle.referrers) :
            e.views = Cardinality({i \in 1..Len(ReferrerFiltered) :
                                     ClaimedReferrerKey(ReferrerFiltered[i]) = e.key})

\* the matched rows without the Bot rows
MatchedNonBot == SelectSeq(Matched, LAMBDA r : r.browser_normalized # "Bot")

\* C23: on the referrer drill-down endpoint a request with includeBots=false
\* counts no Bot row: its result is the aggregation of the matched rows with
\* the Bot rows removed.
C23_ReferrerBotsDiscarded ==
  (ReferrerAnswered /\ resp.req.includeBots = Val("false"))
    => resp.body.data = IF Len(MatchedNonBot) = 0 THEN <<>> ELSE ReferrerPairs(MatchedNonBot)

\* the rows of a section's filtered_views that have the group key k
RowsOfKey(dim, k) ==
  SelectSeq(SectionRows(resp.read, dim, resp.params, underContract),
            LAMBDA r : SectionKey(r, dim, resp.params) = k)

\* the group keys of a section, before any threshold or limit
AllKeys(dim) ==
  {SectionKey(r, dim, resp.params) :
     r \in Entries(SectionRows(resp.read, dim, resp.params, underContract))}

\* the group keys whose views reach minViews
SurvivingKeys(dim) ==
  {k \in AllKeys(dim) : Len(RowsOfKey(dim, k)) >= resp.params.min_views}

RECURSIVE VisitorsOfKeys(_, _)
VisitorsOfKeys(dim, ks) ==
  IF ks = {} THEN 0
  ELSE LET k == CHOOSE x \in ks : TRUE
       IN  CountDistinctIp(RowsOfKey(dim, k)) + VisitorsOfKeys(dim, ks \ {k})

\* the divisor the claim describes: the visitors of the surviving partitions
SurvivorDivisor(dim) == VisitorsOfKeys(dim, SurvivingKeys(dim))

\* visitors / divisor * 100 rounded to one decimal, in tenths of a percent
PercentageOver(visitors, divisor) ==
  IF divisor = 0 THEN JsonNull ELSE Val((2000 * visitors + divisor) \div (2 * divisor))

\* C24: in every dashboard section the percentage divisor is taken over the
\* partitions whose views are at least minViews, and over all of them: a
\* partition below the threshold adds nothing to it, a partition cut only by
\* maxResultsPerSection still does.
C24_DivisorOverSurvivors ==
  ProcedureAnswered
    => \A dim \in Dims :
         \A e \in Entries(Bundle[SectionOf[dim]]) :
           e.percentage = PercentageOver(e.visitors, SurvivorDivisor(dim))

\* a section holds a partition although another one, which has a visitor,
\* fell below minViews
C24_Witness ==
  /\ ProcedureAnswered
  /\ \E dim \in Dims :
       /\ Len(Bundle[SectionOf[dim]]) > 0
       /\ \E k \in AllKeys(dim) \ SurvivingKeys(dim) : CountDistinctIp(RowsOfKey(dim, k)) > 0

\* C29: in a type=all domain response the number of hits equals the sum of
\* the views of the browsers section, and of the os, devices and countries
\* sections, for both values of includeBots and also when rows have no
\* browser_normalized.
C29_HitsEqualSectionViews ==
  (DomainAnswered /\ resp.req.type = Val("all"))
    => \A sec \in {"browsers", "os", "devices", "countries"} :
         Len(resp.body.data.hits) = SumViews(resp.body.data[sec])

\* the domain endpoint served a type=all request with includeBots = true
DomainAllWithBots ==
  /\ DomainAnswered
  /\ resp.req.type = Val("all")
  /\ \/ resp.op = "GET /api/stats/domain (default bots)"
     \/ resp.req.includeBots = Val("true")

\* the views and visitors of the "Bot" partition of a section, if it has one
BotPartition(s) ==
  {[views |-> e.views, visitors |-> e.visitors] : e \in {x \in Entries(s) : x.key = "Bot"}}

\* the Bot rows (by index) on the domain and in the date range of the request
BotRequestRows == {i \in DomainRequestRows : resp.read[i].browser_normalized = "Bot"}

Snapshot(n) == SubSeq(resp.read, 1, n)

\* C22: all reads of one request see the same snapshot of the row source,
\* also when rows are appended while the request is served and whatever order
\* the reads complete in: a type=all domain response is the response computed
\* from one snapshot, and the views and visitors of getDomainStats come from
\* one snapshot.
C22_OneSnapshotPerRequest ==
  /\ (resp.op = "GET /api/stats/domain" /\ resp.http = 200)
       => \E n \in 0..Len(resp.read) :
            resp.body = DomainRoute(Snapshot(n), resp.req, "ok").body
  /\ resp.op = "getDomainStats"
       => \E n \in 0..Len(resp.read) :
            resp.data = getDomainStats(Snapshot(n), resp.range[1], resp.range[2], "ok").data

\* the stats a response returns, whatever the aggregation
ReturnedStats ==
  IF resp.op = "getDomainStats" THEN Entries(resp.data)
  ELSE IF resp.op = "GET /api/stats/domain" /\ resp.http = 200
    THEN UNION {Entries(resp.body.data[sec]) :
                  sec \in {"browsers", "os", "devices", "countries"}}
  ELSE {}

\* C25: every stat an aggregation returns has visitors <= views, those of
\* getDomainStats included, whose visitors are read per domain after the
\* views were counted, also when rows are appended between the two reads.
C25_VisitorsAtMostViews ==
  \A e \in ReturnedStats : e.visitors <= e.views

\* C26: on the domain page (the dashboard and referrer pages fetch the same
\* way), after any sequence of date-range and include-bots changes, once
\* every fetch issued has been answered the data in page state is the
\* response to the selection made last and isLoading is false.
C26_LatestSelectionShown ==
  (domainPage.mounted /\ domainPage.fetches = <<>>)
    => /\ domainPage.data
            = DomainRoute(rows, PageRequest(domainPage.dateRange, domainPage.includeBots),
                          "ok").body.data
       /\ ~domainPage.isLoading

\* C27: in the pageviews table of the domain page, in every state reached by
\* Load More, Show All and Show Less in which more than the initial number
\* of hits is displayed, a Show Less control is offered (pressing it sets
\* hitsToShow to the initial number and showAllHits to false); the state
\* reached by Show All is one of them.
C27_ShowLessOffered ==
  (hitsTable.mounted /\ HitsDisplayed(hitsTable) > INITIAL_HITS_TO_SHOW)
    => ShowLessOffered(hitsTable.hitsToShow, hitsTable.hits, INITIAL_HITS_TO_SHOW,
                       hitsTable.showAllHits)

\* the number of rows the table is to display
ToDisplay == Min(statsTable.itemsToShow, Len(statsTable.data))

\* the rows displayed are ToDisplay rows of the data, in order of
\* non-increasing visitors, and no row left out has more visitors than one
\* displayed
FirstRowsByVisitors ==
  /\ Len(DisplayedData(statsTable)) = ToDisplay
  /\ Cardinality(Entries(DisplayedData(statsTable))) = ToDisplay
  /\ Entries(DisplayedData(statsTable)) \subseteq Entries(statsTable.data)
  /\ NonIncreasing(DisplayedData(statsTable), "visitors")
  /\ \A shown \in Entries(DisplayedData(statsTable)) :
       \A hidden \in Entries(statsTable.data) \ Entries(DisplayedData(statsTable)) :
         shown.visitors >= hidden.visitors

\* C28: in TableWithPercentage over n > 0 rows, after any sequence of Load
\* More, Show All and Show Less, the rows displayed are the first
\* min(itemsToShow, n) rows of the data sorted by non-increasing visitors, the
\* More control is offered exactly when itemsToShow < n, and Load More and
\* Show All never raise itemsToShow above n.
C28_TablePagination ==
  /\ [](TableRendered(statsTable)
          => /\ FirstRowsByVisitors
             /\ MoreOffered(statsTable.itemsToShow, Len(statsTable.data),
                            statsTable.initialItemsToShow, statsTable.showAllByDefault)
                  <=> statsTable.itemsToShow < Len(statsTable.data))
  /\ [][(TableLoadMore \/ TableShowAll)
          => statsTable'.itemsToShow <= Len(statsTable.data)]_vars

\* Load More was cut at the number of rows: every row is displayed, more
\* than initially, and the table did not start that way
C28_Witness ==
  /\ TableRendered(statsTable)
  /\ ~statsTable.showAllByDefault
  /\ statsTable.itemsToShow = Len(statsTable.data)
  /\ statsTable.itemsToShow > statsTable.initialItemsToShow
  /\ (statsTable.itemsToShow - statsTable.initialItemsToShow) % statsTable.itemsPerLoad # 0
  /\ \E i \in 1..(Len(statsTable.data) - 1) :
       statsTable.data[i].visitors < statsTable.data[i + 1].visitors
====
